---- MODULE Spec2Model ----
(***************************************************************************)
(* Model of the Proposal Architect back end (src/backend_b): the ranking   *)
(* service (expiry filter, scorer call, merge, sort), the request handlers *)
(* of score.py with their in-memory session store, and the chunking of the *)
(* embedding service; and of the extraction of the Opportunity Scout back  *)
(* end (src/backend): the reading of the model's answer and the            *)
(* normalization of its records into Opportunity objects.                  *)
(*                                                                         *)
(* Conventions.  A Python value that JSON can carry is a tagged record: k  *)
(* is "null", "bool", "num", "str", "arr" or "obj".  Scores are tenths     *)
(* (0.5 is 5, 1.0 is 10).  A text is a sequence of lexical tokens.  A      *)
(* datetime is [ord, sec, us]: proleptic Gregorian ordinal, second of the  *)
(* day, microsecond.                                                       *)
(***************************************************************************)
EXTENDS Integers, Sequences, FiniteSets, TLC

VARIABLES
    \* one ranking pass (RankingService.rank_opportunities)
    opportunities,        \* the input list
    current_date,         \* datetime.utcnow() read by the pass
    pc,                   \* "start", "filtered", "scoring", "done"
    valid_opportunities,  \* the non-expired inputs, in input order
    expired_count,
    scorer_calls,         \* number of chat-completion calls issued by the pass
    scorer_input,         \* opportunities_text of the last call
    scorer_reply,         \* what the call did
    outcome,              \* what rank_opportunities did: returned a result or raised
    \* the endpoint (score.py)
    sessions,             \* the global session store
    uuid_next,            \* how many session identifiers uuid4 has produced
    clock,                \* index of the current instant in Instants
    request,              \* raw_data of the last run()
    reply,                \* the dictionary the last run() serialised
    calls,                \* the external calls issued by the last run()
    \* one extraction (AIProcessor.process_search_results, src/backend)
    raw_response,         \* the text the model answered
    keywords,             \* the keywords of the search
    stage,                \* "start", "parsed", "validated", "again", "raised"
    raw_opportunities,    \* what _parse_opportunities returned
    validated,            \* what _validate_and_fix_opportunities returned
    revalidated,          \* the same function applied to the dumped result
    \* one call of EmbeddingService.chunk_text
    full_text,            \* its argument text
    chunk_size,
    overlap,
    chunk_pc,             \* "call", "loop", "returned"
    start,
    end,                  \* the end of the last window
    chunks,
    \* one call of a function that keeps no state
    call_args,            \* the function and its arguments
    call_result           \* what it returned; pending before

rankVars == <<opportunities, current_date, pc, valid_opportunities,
              expired_count, scorer_calls, scorer_input, scorer_reply, outcome>>
endpointVars == <<sessions, uuid_next, clock, request, reply, calls>>
extractVars == <<raw_response, keywords, stage, raw_opportunities, validated, revalidated>>
chunkVars == <<full_text, chunk_size, overlap, chunk_pc, start, end, chunks>>
callVars == <<call_args, call_result>>
vars == <<opportunities, current_date, pc, valid_opportunities,
          expired_count, scorer_calls, scorer_input, scorer_reply, outcome,
          sessions, uuid_next, clock, request, reply, calls,
          raw_response, keywords, stage, raw_opportunities, validated, revalidated,
          full_text, chunk_size, overlap, chunk_pc, start, end, chunks,
          call_args, call_result>>

----------------------------------------------------------------------------
(* Sequences *)

Range(s) == { s[i] : i \in DOMAIN s }

RECURSIVE SeqsUpTo(_, _)
SeqsUpTo(S, n) ==
    IF n = 0 THEN { << >> }
    ELSE LET shorter == SeqsUpTo(S, n - 1)
         IN  shorter \cup { Append(s, x) : s \in { t \in shorter : Len(t) = n - 1 }, x \in S }

----------------------------------------------------------------------------
(* Python values *)

None == [k |-> "null"]
JBool(b) == [k |-> "bool", b |-> b]
JNum(n) == [k |-> "num", n |-> n]
JStr(s) == [k |-> "str", s |-> s]
JArr(a) == [k |-> "arr", a |-> a]
JObj(o) == [k |-> "obj", o |-> o]
EmptyDict == JObj(<< >>)
EmptyList == JArr(<< >>)
\* an int, where a number is a count and no score
JInt(n) == [k |-> "int", n |-> n]

(* A str that is read as a date is described by its lexical shape and its   *)
(* numeric fields instead of its characters:                                *)
(*   "ymd"    Y-M-D            "ymdT"   Y-M-DTh:m:s    "ymdTZ"  Y-M-DTh:m:sZ *)
(*   "ymd_"   Y-M-D h:m:s      "slash"  p/q/Y                                *)
(*   "long"   <Month> D, Y     "abbr"   <Mon> D, Y                           *)
StrYmd(y, m, d) == [k |-> "str", shape |-> "ymd", y |-> y, m |-> m, d |-> d, sec |-> 0]
StrYmdT(y, m, d, sec) == [k |-> "str", shape |-> "ymdT", y |-> y, m |-> m, d |-> d, sec |-> sec]
StrYmdTZ(y, m, d, sec) == [k |-> "str", shape |-> "ymdTZ", y |-> y, m |-> m, d |-> d, sec |-> sec]
StrYmdSp(y, m, d, sec) == [k |-> "str", shape |-> "ymd_", y |-> y, m |-> m, d |-> d, sec |-> sec]
StrSlash(p, q, y) == [k |-> "str", shape |-> "slash", p |-> p, q |-> q, y |-> y]
StrLong(m, d, y) == [k |-> "str", shape |-> "long", y |-> y, m |-> m, d |-> d, sec |-> 0]
StrAbbr(m, d, y) == [k |-> "str", shape |-> "abbr", y |-> y, m |-> m, d |-> d, sec |-> 0]
StrEmpty == JStr("")
StrText == JStr("soon")

\* bool(v)
Truthy(v) ==
    CASE v.k = "null" -> FALSE
      [] v.k = "bool" -> v.b
      [] v.k = "num" -> v.n # 0
      [] v.k = "str" -> v # StrEmpty
      [] v.k = "arr" -> v.a # << >>
      [] v.k = "obj" -> DOMAIN v.o # {}

\* dict.get(key, default)
Get(dict, key, default) == IF key \in DOMAIN dict.o THEN dict.o[key] ELSE default

\* dict[key] = value
Put(dict, key, value) == JObj((key :> value) @@ dict.o)

----------------------------------------------------------------------------
(* Dates: datetime.strptime, datetime comparison and subtraction *)

IsLeap(y) == (y % 4 = 0) /\ ((y % 100 # 0) \/ (y % 400 = 0))

DaysInMonth(y, m) ==
    CASE m \in {1, 3, 5, 7, 8, 10, 12} -> 31
      [] m \in {4, 6, 9, 11} -> 30
      [] OTHER -> IF IsLeap(y) THEN 29 ELSE 28

RECURSIVE DaysBeforeMonth(_, _)
DaysBeforeMonth(y, m) ==
    IF m <= 1 THEN 0 ELSE DaysBeforeMonth(y, m - 1) + DaysInMonth(y, m - 1)

DaysBeforeYear(y) ==
    ((y - 1) * 365) + ((y - 1) \div 4) - ((y - 1) \div 100) + ((y - 1) \div 400)

Ymd2Ord(y, m, d) == DaysBeforeYear(y) + DaysBeforeMonth(y, m) + d

ValidYmd(y, m, d) ==
    /\ y \in 1..9999
    /\ m \in 1..12
    /\ d >= 1
    /\ d <= DaysInMonth(y, m)

ValidHms(sec) == sec \in 0..86399

DateTime(y, m, d, sec) == [ord |-> Ymd2Ord(y, m, d), sec |-> sec, us |-> 0]

\* datetime.__lt__ on naive datetimes
Before(a, b) ==
    \/ a.ord < b.ord
    \/ a.ord = b.ord /\ a.sec < b.sec
    \/ a.ord = b.ord /\ a.sec = b.sec /\ a.us < b.us

\* (a - b).days: timedelta normalises to 0 <= seconds, microseconds
DeltaDays(a, b) ==
    IF (a.sec < b.sec) \/ (a.sec = b.sec /\ a.us < b.us)
    THEN a.ord - b.ord - 1
    ELSE a.ord - b.ord

\* the formats with month/day/year before day/month/year
FormatsMonthFirst ==
    << "%Y-%m-%d", "%Y-%m-%dT%H:%M:%S", "%Y-%m-%dT%H:%M:%SZ",
       "%Y-%m-%d %H:%M:%S", "%m/%d/%Y", "%d/%m/%Y", "%B %d, %Y", "%b %d, %Y" >>

Formats == << "%Y-%m-%d", "%Y-%m-%dT%H:%M:%S", "%Y-%m-%dT%H:%M:%SZ",
              "%Y-%m-%d %H:%M:%S", "%d/%m/%Y", "%m/%d/%Y", "%B %d, %Y", "%b %d, %Y" >>

FormatShape(fmt) ==
    CASE fmt = "%Y-%m-%d" -> "ymd"
      [] fmt = "%Y-%m-%dT%H:%M:%S" -> "ymdT"
      [] fmt = "%Y-%m-%dT%H:%M:%SZ" -> "ymdTZ"
      [] fmt = "%Y-%m-%d %H:%M:%S" -> "ymd_"
      [] fmt = "%d/%m/%Y" -> "slash"
      [] fmt = "%m/%d/%Y" -> "slash"
      [] fmt = "%B %d, %Y" -> "long"
      [] fmt = "%b %d, %Y" -> "abbr"

\* datetime.strptime(s, fmt) for a str s: the datetime, or None for ValueError.
\* May is spelled alike in full and abbreviated, so a "long" May date also fits %b.
Strptime(s, fmt) ==
    IF "shape" \notin DOMAIN s THEN None
    ELSE IF s.shape = "slash"
    THEN IF fmt = "%d/%m/%Y" /\ ValidYmd(s.y, s.q, s.p) THEN DateTime(s.y, s.q, s.p, 0)
         ELSE IF fmt = "%m/%d/%Y" /\ ValidYmd(s.y, s.p, s.q) THEN DateTime(s.y, s.p, s.q, 0)
         ELSE None
    ELSE IF /\ \/ FormatShape(fmt) = s.shape
               \/ s.shape = "long" /\ s.m = 5 /\ fmt = "%b %d, %Y"
               \/ s.shape = "abbr" /\ s.m = 5 /\ fmt = "%B %d, %Y"
            /\ ValidYmd(s.y, s.m, s.d)
            /\ ValidHms(s.sec)
         THEN DateTime(s.y, s.m, s.d, s.sec)
         ELSE None

RECURSIVE TryFormats(_, _)
TryFormats(s, i) ==
    IF i > Len(Formats) THEN None
    ELSE LET r == Strptime(s, Formats[i])
         IN  IF r # None THEN r ELSE TryFormats(s, i + 1)

\* RankingService._parse_date
ParseDate(date_str) ==
    IF ~Truthy(date_str) THEN None ELSE TryFormats(date_str, 1)

\* _is_expired as it would be if either date in the past expired the opportunity
IsExpiredEitherDate(opportunity, now) ==
    LET dates == Get(opportunity, "dates", EmptyDict)
        deadline == ParseDate(Get(dates, "application_deadline", None))
        start_date == ParseDate(Get(dates, "start_date", None))
    IN  \/ deadline # None /\ Before(deadline, now)
        \/ start_date # None /\ Before(start_date, now)

\* RankingService._is_expired
IsExpired(opportunity, now) ==
    LET dates == Get(opportunity, "dates", EmptyDict)
        deadline_str == Get(dates, "application_deadline", None)
    IN  IF ~Truthy(deadline_str)
        THEN LET start_str == Get(dates, "start_date", None)
             IN  IF Truthy(start_str)
                 THEN LET start_date == ParseDate(start_str)
                      IN  start_date # None /\ Before(start_date, now)
                 ELSE FALSE
        ELSE LET deadline == ParseDate(deadline_str)
             IN  IF deadline # None THEN Before(deadline, now) ELSE FALSE

\* _days_until_deadline as it would be if it fell back on the start date
DaysUntilEitherDate(opportunity, now) ==
    LET dates == Get(opportunity, "dates", EmptyDict)
        deadline == ParseDate(Get(dates, "application_deadline", None))
        start_date == ParseDate(Get(dates, "start_date", None))
    IN  IF deadline # None THEN JInt(DeltaDays(deadline, now))
        ELSE IF start_date # None THEN JInt(DeltaDays(start_date, now))
        ELSE None

\* RankingService._days_until_deadline
DaysUntilDeadline(opportunity, now) ==
    LET dates == Get(opportunity, "dates", EmptyDict)
        deadline_str == Get(dates, "application_deadline", None)
    IN  IF ~Truthy(deadline_str) THEN None
        ELSE LET deadline == ParseDate(deadline_str)
             IN  IF deadline # None
                 THEN JInt(DeltaDays(deadline, now))
                 ELSE None

----------------------------------------------------------------------------
(* JSON texts and json.loads *)

\* tokens of a text
LB == [t |-> "p", c |-> "["]
RB == [t |-> "p", c |-> "]"]
LC == [t |-> "p", c |-> "{"]
RC == [t |-> "p", c |-> "}"]
COMMA == [t |-> "p", c |-> ","]
COLON == [t |-> "p", c |-> ":"]
TLit(v) == [t |-> "lit", v |-> v]   \* a string, number, true, false or null literal
TStr(s) == TLit(JStr(s))
TNum(n) == TLit(JNum(n))
TBool(b) == TLit(JBool(b))
TNull == TLit(None)
TWord == [t |-> "word"]             \* a word of prose: no JSON token

IsP(tok, c) == tok.t = "p" /\ tok.c = c

Fail == [ok |-> FALSE]
Ok(v, next) == [ok |-> TRUE, v |-> v, next |-> next]

RECURSIVE ParseValue(_, _), ParseElements(_, _, _), ParseMembers(_, _, _)

\* the value starting at token i and the index after it
ParseValue(text, i) ==
    IF i > Len(text) THEN Fail
    ELSE LET tok == text[i]
         IN  CASE tok.t = "lit" -> Ok(tok.v, i + 1)
               [] IsP(tok, "[") ->
                    IF i + 1 <= Len(text) /\ IsP(text[i + 1], "]")
                    THEN Ok(EmptyList, i + 2)
                    ELSE ParseElements(text, i + 1, << >>)
               [] IsP(tok, "{") ->
                    IF i + 1 <= Len(text) /\ IsP(text[i + 1], "}")
                    THEN Ok(EmptyDict, i + 2)
                    ELSE ParseMembers(text, i + 1, << >>)
               [] OTHER -> Fail

ParseElements(text, i, acc) ==
    LET r == ParseValue(text, i)
    IN  IF ~r.ok \/ r.next > Len(text) THEN Fail
        ELSE IF IsP(text[r.next], ",") THEN ParseElements(text, r.next + 1, Append(acc, r.v))
        ELSE IF IsP(text[r.next], "]") THEN Ok(JArr(Append(acc, r.v)), r.next + 1)
        ELSE Fail

\* a key is a string literal; a repeated key keeps its last value
ParseMembers(text, i, acc) ==
    IF \/ i + 1 > Len(text)
       \/ text[i].t # "lit"
       \/ text[i].v.k # "str"
       \/ "s" \notin DOMAIN text[i].v
       \/ ~IsP(text[i + 1], ":")
    THEN Fail
    ELSE LET r == ParseValue(text, i + 2)
             o == (text[i].v.s :> r.v) @@ acc
         IN  IF ~r.ok \/ r.next > Len(text) THEN Fail
             ELSE IF IsP(text[r.next], ",") THEN ParseMembers(text, r.next + 1, o)
             ELSE IF IsP(text[r.next], "}") THEN Ok(JObj(o), r.next + 1)
             ELSE Fail

\* json.loads(text) for a str: the value, or not ok for JSONDecodeError
JsonLoads(text) ==
    LET r == ParseValue(text, 1)
    IN  IF r.ok /\ r.next = Len(text) + 1 THEN [ok |-> TRUE, v |-> r.v] ELSE Fail

\* str.find, str.rfind for a one-character needle: 0-based index or -1
RECURSIVE FindFrom(_, _, _)
FindFrom(text, c, i) ==
    IF i > Len(text) THEN -1
    ELSE IF IsP(text[i], c) THEN i - 1
    ELSE FindFrom(text, c, i + 1)

Find(text, c) == FindFrom(text, c, 1)

RECURSIVE RFindFrom(_, _, _)
RFindFrom(text, c, i) ==
    IF i < 1 THEN -1
    ELSE IF IsP(text[i], c) THEN i - 1
    ELSE RFindFrom(text, c, i - 1)

RFind(text, c) == RFindFrom(text, c, Len(text))

\* text[first:last] with 0 <= first
Slice(text, first, last) == SubSeq(text, first + 1, last)

\* the tokens of "key": value, of {members} and of [elements]
Member(key, toks) == << TStr(key), COLON >> \o toks

RECURSIVE Joined(_, _)
Joined(parts, i) ==
    IF i > Len(parts) THEN << >>
    ELSE (IF i > 1 THEN << COMMA >> ELSE << >>) \o parts[i] \o Joined(parts, i + 1)
Object(members) == << LC >> \o Joined(members, 1) \o << RC >>
Array(elements) == << LB >> \o Joined(elements, 1) \o << RB >>

----------------------------------------------------------------------------
(* RankingService: the steps of one ranking pass *)

Part(label, v) == [label |-> label, v |-> v]
PartIf(cond, label, v) == IF cond THEN << Part(label, v) >> ELSE << >>

\* loc_parts of lines 122-126 and 309-313
LocParts(location) ==
    (IF Truthy(Get(location, "city", None)) THEN << location.o["city"] >> ELSE << >>)
    \o (IF Truthy(Get(location, "country", None)) THEN << location.o["country"] >> ELSE << >>)

\* RankingService._prepare_opportunity_text: the labelled lines, in order
PrepareOpportunityText(opportunity) ==
    LET dates == Get(opportunity, "dates", EmptyDict)
        location == Get(opportunity, "location", EmptyDict)
        compensation == Get(opportunity, "compensation", EmptyDict)
        amount == Get(compensation, "amount", None)
    IN  << Part("ID", Get(opportunity, "id", JStr("unknown"))),
           Part("Event", Get(opportunity, "event_name", JStr("Unknown Event"))),
           Part("Type", Get(opportunity, "event_type", JStr("unknown"))) >>
        \o PartIf(Truthy(Get(opportunity, "description", None)), "Description",
                  Get(opportunity, "description", None))
        \o PartIf(Truthy(Get(dates, "start_date", None)), "Start Date",
                  Get(dates, "start_date", None))
        \o PartIf(Truthy(Get(dates, "end_date", None)), "End Date",
                  Get(dates, "end_date", None))
        \o PartIf(Truthy(Get(dates, "application_deadline", None)), "Application Deadline",
                  Get(dates, "application_deadline", None))
        \o PartIf(LocParts(location) # << >>, "Location", JArr(LocParts(location)))
        \o PartIf(Truthy(Get(location, "is_virtual", None)), "Format", JStr("Virtual"))
        \o (IF Truthy(Get(compensation, "is_paid", None))
            THEN IF Truthy(amount)
                 THEN << Part("Compensation", amount) >>
                 ELSE << Part("Compensation", JStr("Paid")) >>
            ELSE << Part("Compensation", JStr("Unpaid/Unknown")) >>)
        \o PartIf(Truthy(Get(opportunity, "keywords_matched", None)), "Keywords",
                  Get(opportunity, "keywords_matched", None))

\* opportunities_text of rank_opportunities_with_ai: one text per opportunity
OpportunitiesText(opps) == [i \in DOMAIN opps |-> PrepareOpportunityText(opps[i])]

\* What a chat-completion call does: it raises, or returns a message whose
\* content is None, or returns a message whose content is a text.
CallRaises == [kind |-> "raise"]
NoContent == [kind |-> "none"]
Content(text) == [kind |-> "text", text |-> text]

\* rank_opportunities_with_ai as it would be if its handlers returned None
\* instead of the empty list
ParseRankingsNoneOnFailure(response) ==
    IF response.kind # "text" THEN None
    ELSE LET direct == JsonLoads(response.text)
         IN  IF direct.ok THEN direct.v ELSE None

\* RankingService.rank_opportunities_with_ai, after the call: the rankings it returns.
\* json.loads(None) raises TypeError, and a JSONDecodeError raised inside the
\* except clause leaves it: both reach the outer handler, which returns [].
ParseRankings(response) ==
    IF response.kind = "raise" THEN EmptyList
    ELSE IF response.kind = "none" THEN EmptyList
    ELSE LET result_text == response.text
             direct == JsonLoads(result_text)
             start_idx == Find(result_text, "[")
             end_idx == RFind(result_text, "]") + 1
         IN  IF direct.ok THEN direct.v
             ELSE IF start_idx # -1 /\ end_idx > start_idx
                  THEN LET inner == JsonLoads(Slice(result_text, start_idx, end_idx))
                       IN  IF inner.ok THEN inner.v ELSE EmptyList
                  ELSE EmptyList

Hashable(v) == v.k \in {"str", "num", "null", "bool"}

\* the elements a for loop over the value visits; not ok for TypeError.
\* A dict yields its keys and a str its characters: strs either way.
Iterate(v) ==
    CASE v.k = "arr" -> [ok |-> TRUE, items |-> v.a]
      [] v.k = "obj" -> [ok |-> TRUE, items |-> [i \in 1..Cardinality(DOMAIN v.o) |-> JStr("k")]]
      [] v.k = "str" -> [ok |-> TRUE, items |-> IF v = StrEmpty THEN << >> ELSE << JStr("c") >>]
      [] OTHER -> Fail

\* {r["opportunity_id"]: r for r in ai_rankings}: the entries in order (a later
\* entry replaces an earlier one with the same key); not ok for KeyError, TypeError
BuildLookup(ai_rankings) ==
    LET it == Iterate(ai_rankings)
    IN  IF ~it.ok THEN Fail
        ELSE IF \A i \in DOMAIN it.items :
                    /\ it.items[i].k = "obj"
                    /\ "opportunity_id" \in DOMAIN it.items[i].o
                    /\ Hashable(it.items[i].o["opportunity_id"])
             THEN [ok |-> TRUE, entries |-> it.items]
             ELSE Fail

RECURSIVE LookupFrom(_, _, _)
LookupFrom(entries, key, i) ==
    IF i < 1 THEN EmptyDict
    ELSE IF entries[i].o["opportunity_id"] = key THEN entries[i]
    ELSE LookupFrom(entries, key, i - 1)

\* ai_ranking_lookup.get(opp_id, {})
LookupGet(entries, opp_id) == LookupFrom(entries, opp_id, Len(entries))

\* the ranked_opp dictionary as it would be if it took is_expired and
\* days_until_deadline from the scoring response when they are there
RankedOppFromScorer(opp, ai_ranking, now) ==
    LET location == Get(opp, "location", EmptyDict)
        compensation == Get(opp, "compensation", EmptyDict)
        dates == Get(opp, "dates", EmptyDict)
    IN  [ opportunity_id |-> Get(opp, "id", StrEmpty),
          event_name |-> Get(opp, "event_name", JStr("Unknown Event")),
          event_type |-> Get(opp, "event_type", None),
          description |-> Get(opp, "description", None),
          start_date |-> Get(dates, "start_date", None),
          end_date |-> Get(dates, "end_date", None),
          application_deadline |-> Get(dates, "application_deadline", None),
          location |-> IF LocParts(location) # << >> THEN JArr(LocParts(location)) ELSE None,
          is_virtual |-> Get(location, "is_virtual", JBool(FALSE)),
          is_paid |-> Get(compensation, "is_paid", JBool(FALSE)),
          compensation_amount |-> Get(compensation, "amount", None),
          application_url |-> Get(Get(opp, "application", EmptyDict), "url", None),
          source_url |-> Get(opp, "source_url", None),
          match_score |-> Get(ai_ranking, "match_score", JNum(5)),
          relevance_score |-> Get(ai_ranking, "relevance_score", JNum(5)),
          preference_score |-> Get(ai_ranking, "preference_score", JNum(5)),
          match_reasons |-> Get(ai_ranking, "match_reasons", EmptyList),
          matching_keywords |-> Get(ai_ranking, "matching_keywords", EmptyList),
          is_expired |-> Get(ai_ranking, "is_expired", JBool(FALSE)),
          days_until_deadline |->
              Get(ai_ranking, "days_until_deadline", DaysUntilDeadline(opp, now)) ]

\* the ranked_opp dictionary of lines 304-340
RankedOpp(opp, ai_ranking, now) ==
    LET location == Get(opp, "location", EmptyDict)
        compensation == Get(opp, "compensation", EmptyDict)
        dates == Get(opp, "dates", EmptyDict)
    IN  [ opportunity_id |-> Get(opp, "id", StrEmpty),
          event_name |-> Get(opp, "event_name", JStr("Unknown Event")),
          event_type |-> Get(opp, "event_type", None),
          description |-> Get(opp, "description", None),
          start_date |-> Get(dates, "start_date", None),
          end_date |-> Get(dates, "end_date", None),
          application_deadline |-> Get(dates, "application_deadline", None),
          location |-> IF LocParts(location) # << >> THEN JArr(LocParts(location)) ELSE None,
          is_virtual |-> Get(location, "is_virtual", JBool(FALSE)),
          is_paid |-> Get(compensation, "is_paid", JBool(FALSE)),
          compensation_amount |-> Get(compensation, "amount", None),
          application_url |-> Get(Get(opp, "application", EmptyDict), "url", None),
          source_url |-> Get(opp, "source_url", None),
          match_score |-> Get(ai_ranking, "match_score", JNum(5)),
          relevance_score |-> Get(ai_ranking, "relevance_score", JNum(5)),
          preference_score |-> Get(ai_ranking, "preference_score", JNum(5)),
          match_reasons |-> Get(ai_ranking, "match_reasons", EmptyList),
          matching_keywords |-> Get(ai_ranking, "matching_keywords", EmptyList),
          is_expired |-> JBool(FALSE),
          days_until_deadline |-> DaysUntilDeadline(opp, now) ]

\* the for loop as it would be if it skipped the opportunities the scorer left out
CombineScoredOnly(valid, entries, now) ==
    LET scored == SelectSeq(valid, LAMBDA opp :
                      LookupGet(entries, Get(opp, "id", StrEmpty)) # EmptyDict)
    IN  [i \in DOMAIN scored |->
            RankedOpp(scored[i], LookupGet(entries, Get(scored[i], "id", StrEmpty)), now)]

\* the for loop of lines 303-342
Combine(valid, entries, now) ==
    [i \in DOMAIN valid |-> RankedOpp(valid[i], LookupGet(entries, Get(valid[i], "id", StrEmpty)), now)]

\* a < b is defined (no TypeError): numbers (and bools) with each other, strs with strs
Numeric(v) == v.k \in {"num", "bool"}
Comparable(a, b) == (Numeric(a) /\ Numeric(b)) \/ (a.k = "str" /\ b.k = "str")

NumberOf(v) == IF v.k = "bool" THEN (IF v.b THEN 10 ELSE 0) ELSE v.n

\* order of the strs the model's scorer texts use as scores: "0.3" < "0.9"
StrRank(v) == IF v = JStr("0.3") THEN 1 ELSE IF v = JStr("0.9") THEN 2 ELSE 3

\* a < b on comparable keys
KeyLess(a, b) == IF Numeric(a) THEN NumberOf(a) < NumberOf(b) ELSE StrRank(a) < StrRank(b)

\* list.sort raises TypeError: some comparison it makes is undefined
SortRaises(list) ==
    /\ Len(list) >= 2
    /\ \E i, j \in DOMAIN list :
          i < j /\ ~Comparable(list[i].match_score, list[j].match_score)

\* an insertion that places x in front of the elements whose key equals its own
RECURSIVE InsertBeforeTies(_, _, _)
InsertBeforeTies(sorted, x, i) ==
    IF i > Len(sorted) THEN Append(sorted, x)
    ELSE IF ~KeyLess(x.match_score, sorted[i].match_score)
         THEN SubSeq(sorted, 1, i - 1) \o << x >> \o SubSeq(sorted, i, Len(sorted))
         ELSE InsertBeforeTies(sorted, x, i + 1)

\* x placed behind every element whose key is not less than its own
RECURSIVE InsertDescending(_, _, _)
InsertDescending(sorted, x, i) ==
    IF i > Len(sorted) THEN Append(sorted, x)
    ELSE IF KeyLess(sorted[i].match_score, x.match_score)
         THEN SubSeq(sorted, 1, i - 1) \o << x >> \o SubSeq(sorted, i, Len(sorted))
         ELSE InsertDescending(sorted, x, i + 1)

RECURSIVE SortFrom(_, _, _)
SortFrom(list, i, sorted) ==
    IF i > Len(list) THEN sorted
    ELSE SortFrom(list, i + 1, InsertDescending(sorted, list[i], 1))

\* ranked_results.sort(key=lambda x: x["match_score"], reverse=True): stable
SortByMatchScore(list) == SortFrom(list, 1, << >>)

RECURSIVE FilterValid(_, _, _)
FilterValid(opps, now, i) ==
    IF i > Len(opps) THEN << >>
    ELSE (IF IsExpired(opps[i], now) THEN << >> ELSE << opps[i] >>)
         \o FilterValid(opps, now, i + 1)

\* the partition loop of lines 271-278
ValidOf(opps, now) == FilterValid(opps, now, 1)
\* the count as it would be if the increment stood outside the if
ExpiredCountEvery(opps, now) == Len(opps)
ExpiredCountOf(opps, now) == Cardinality({ i \in DOMAIN opps : IsExpired(opps[i], now) })

Returned(ranked, total, valid, expired) ==
    [ kind |-> "returned",
      result |-> [ ranked_opportunities |-> ranked,
                   total_opportunities |-> total,
                   valid_opportunities |-> valid,
                   expired_opportunities |-> expired ] ]
Raised == [kind |-> "raised"]
Running == [kind |-> "running"]

\* lines 297-352: lookup, combine, sort, result; Raised when an exception leaves
MergeAndSort(opps, valid, expired, ai_rankings, now) ==
    LET lookup == BuildLookup(ai_rankings)
        ranked_results == Combine(valid, lookup.entries, now)
    IN  IF ~lookup.ok THEN Raised
        ELSE IF SortRaises(ranked_results) THEN Raised
        ELSE Returned(SortByMatchScore(ranked_results), Len(opps), Len(valid), expired)

----------------------------------------------------------------------------
(* Inputs of a ranking pass *)

MaxOpps == 3       \* longest list drawn from Catalog

\* an opportunity as Opportunity.to_dict writes it: every sub-record present
FullOpp(id, deadline, start_date, city, paid) ==
    JObj([ id |-> JStr(id),
           event_name |-> JStr("Conf"),
           event_type |-> JStr("conference"),
           description |-> None,
           dates |-> JObj([ start_date |-> start_date, end_date |-> None,
                            application_deadline |-> deadline ]),
           location |-> JObj([ city |-> city, country |-> None, is_virtual |-> JBool(FALSE) ]),
           compensation |-> JObj([ is_paid |-> JBool(paid), amount |-> None ]),
           application |-> JObj([ url |-> None ]),
           keywords_matched |-> EmptyList,
           source_url |-> None ])

\* an opportunity that carries only an id, a name and a deadline
SparseOpp(id, deadline) ==
    JObj([ id |-> JStr(id), event_name |-> JStr("Conf"),
           dates |-> JObj([ application_deadline |-> deadline ]) ])

ExampleA == SparseOpp("a", StrYmd(2099, 1, 1))
ExampleB == SparseOpp("b", StrYmd(2000, 1, 1))
ExampleC == FullOpp("c", None, None, JStr("Paris"), TRUE)

Catalog ==
    { ExampleA,
      ExampleB,
      ExampleC,
      FullOpp("d", None, StrYmd(2020, 1, 1), None, FALSE),
      FullOpp("e", StrYmd(2026, 11, 1), StrYmd(2020, 1, 1), None, FALSE) }

\* the date strings of the one-opportunity inputs
DateStrings ==
    { None, StrEmpty, StrText,
      StrYmd(2000, 1, 1), StrYmd(2026, 11, 1), StrYmd(2027, 11, 1), StrYmd(2027, 2, 30),
      StrYmdT(2026, 11, 1, 46800), StrYmdTZ(2026, 11, 1, 46801), StrYmdSp(2026, 10, 31, 86399),
      StrSlash(2, 11, 2026), StrSlash(11, 2, 2026), StrSlash(13, 11, 2026), StrSlash(11, 13, 2026),
      StrLong(11, 1, 2026), StrAbbr(5, 5, 2027) }

RankInputs ==
    SeqsUpTo(Catalog, MaxOpps)
    \cup { << FullOpp("a", dl, st, None, FALSE) >> : dl \in DateStrings, st \in DateStrings }

\* values of datetime.utcnow()
Instants ==
    << [ord |-> Ymd2Ord(2026, 11, 1), sec |-> 0, us |-> 0],
       [ord |-> Ymd2Ord(2026, 11, 1), sec |-> 46800, us |-> 1] >>

\* the tokens of one entry of a scoring response
EntryWith(id, m, r, p, expired) ==
    Object(<< Member("opportunity_id", << TStr(id) >>),
              Member("match_score", << m >>),
              Member("relevance_score", << r >>),
              Member("preference_score", << p >>),
              Member("match_reasons", Array(<< << TStr("fit") >> >>)),
              Member("matching_keywords", Array(<< << TStr("ai") >> >>)),
              Member("is_expired", << TBool(expired) >>),
              Member("days_until_deadline", << TNum(30) >>) >>)
Entry(id, m) == EntryWith(id, TNum(m), TNum(m), TNum(m), FALSE)
NoIdEntry(m) == Object(<< Member("match_score", << TNum(m) >>) >>)

\* texts the scorer may answer with
WellFormedTexts ==
    { Array(<< Entry("c", 9), Entry("e", 9), Entry("a", 3) >>),
      Array(<< Entry("c", 9) >>),
      Array(<< Entry("a", 3) >>),
      Array(<< Entry("e", 7), Entry("a", 7) >>),
      Array(<< Entry("a", 3), Entry("a", 9) >>),
      Array(<< Entry("b", 8), Entry("zz", 10), Entry("c", 0) >>),
      Array(<< >>) }
ProseTexts ==
    { << TWord, TWord >> \o Array(<< Entry("c", 9) >>) \o << TWord >>,
      << TWord, LB, TWord, RB >> \o Array(<< Entry("c", 9) >>),
      << TWord, TWord >>,
      << LB, LC, TStr("opportunity_id"), COLON, TStr("a"), COMMA >>,
      << >> }
MalformedTexts ==
    { Array(<< NoIdEntry(9) >>),
      Array(<< Entry("a", 9), NoIdEntry(9) >>),
      Array(<< EntryWith("a", TNull, TNum(9), TNum(9), FALSE) >>),
      Array(<< EntryWith("a", TStr("0.9"), TNum(9), TNum(9), FALSE), Entry("c", 9) >>),
      Array(<< EntryWith("a", TStr("0.9"), TNum(9), TNum(9), FALSE),
               EntryWith("c", TStr("0.3"), TNum(9), TNum(9), FALSE),
               EntryWith("e", TStr("0.9"), TNum(9), TNum(9), FALSE) >>),
      Array(<< << TStr("a") >>, << TNum(9) >> >>),
      Object(<< Member("rankings", Array(<< Entry("a", 9) >>)) >>),
      Object(<< >>),
      << TNull >>,
      << TNum(9) >>,
      << TStr("") >> }
OutOfRangeTexts ==
    { Array(<< EntryWith("a", TNum(15), TNum(9), TNum(9), FALSE), Entry("c", 9) >>),
      Array(<< EntryWith("a", TNum(9), TNum(-1), TNum(11), TRUE) >>) }

ScorerTexts == WellFormedTexts \cup ProseTexts \cup MalformedTexts \cup OutOfRangeTexts
ScorerReplies == { CallRaises, NoContent } \cup { Content(t) : t \in ScorerTexts }

----------------------------------------------------------------------------
(* The ranking pass, rank_opportunities, step by step *)

NoReply == [kind |-> "pending"]

InitRank ==
    /\ opportunities \in RankInputs
    /\ current_date \in Range(Instants)
    /\ pc = "start"
    /\ valid_opportunities = << >>
    /\ expired_count = 0
    /\ scorer_calls = 0
    /\ scorer_input = << >>
    /\ scorer_reply = NoReply
    /\ outcome = Running
    /\ sessions = << >>
    /\ uuid_next = 0
    /\ clock = 1
    /\ request = << >>
    /\ reply = [success |-> TRUE]
    /\ calls = << >>
    /\ raw_response = << >>
    /\ keywords = EmptyList
    /\ stage = "idle"
    /\ raw_opportunities = None
    /\ validated = << >>
    /\ revalidated = << >>
    /\ full_text = << >>
    /\ chunk_size = 1
    /\ overlap = 0
    /\ chunk_pc = "idle"
    /\ start = 0
    /\ end = 0
    /\ chunks = << >>
    /\ call_args = [fn |-> "none"]
    /\ call_result = [kind |-> "pending"]

\* lines 268-288: the partition, and the early return when nothing is valid
Partition ==
    /\ pc = "start"
    /\ valid_opportunities' = ValidOf(opportunities, current_date)
    /\ expired_count' = ExpiredCountOf(opportunities, current_date)
    /\ IF valid_opportunities' = << >>
       THEN /\ pc' = "done"
            /\ outcome' = Returned(<< >>, Len(opportunities), 0, expired_count')
       ELSE /\ pc' = "filtered"
            /\ outcome' = outcome
    /\ UNCHANGED <<opportunities, current_date, scorer_calls, scorer_input, scorer_reply>>
    /\ UNCHANGED endpointVars
    /\ UNCHANGED extractVars
    /\ UNCHANGED chunkVars
    /\ UNCHANGED callVars

\* the call as it would be if it were handed the unfiltered list
CallScorerWithAll ==
    /\ pc = "filtered"
    /\ scorer_input' = OpportunitiesText(opportunities)
    /\ scorer_calls' = scorer_calls + 1
    /\ pc' = "scoring"
    /\ UNCHANGED <<opportunities, current_date, valid_opportunities, expired_count,
                   scorer_reply, outcome>>
    /\ UNCHANGED endpointVars
    /\ UNCHANGED extractVars
    /\ UNCHANGED chunkVars
    /\ UNCHANGED callVars

\* lines 291-295 and 164-224: rank_opportunities_with_ai builds the text and
\* issues the chat-completion call
CallScorer ==
    /\ pc = "filtered"
    /\ scorer_input' = OpportunitiesText(valid_opportunities)
    /\ scorer_calls' = scorer_calls + 1
    /\ pc' = "scoring"
    /\ UNCHANGED <<opportunities, current_date, valid_opportunities, expired_count,
                   scorer_reply, outcome>>
    /\ UNCHANGED endpointVars
    /\ UNCHANGED extractVars
    /\ UNCHANGED chunkVars
    /\ UNCHANGED callVars

\* lines 226-245 and 297-352: the call ends; parse, look up, combine, sort, return
ScorerReturns ==
    /\ pc = "scoring"
    /\ \E response \in ScorerReplies :
          /\ scorer_reply' = response
          /\ outcome' = MergeAndSort(opportunities, valid_opportunities, expired_count,
                                     ParseRankings(response), current_date)
    /\ pc' = "done"
    /\ UNCHANGED <<opportunities, current_date, valid_opportunities, expired_count,
                   scorer_calls, scorer_input>>
    /\ UNCHANGED endpointVars
    /\ UNCHANGED extractVars
    /\ UNCHANGED chunkVars
    /\ UNCHANGED callVars

NextRank == Partition \/ CallScorer \/ ScorerReturns

SpecRank == InitRank /\ [][NextRank]_vars

----------------------------------------------------------------------------
(* score.py: values of the request handlers *)

MaxSessions == 1            \* session identifiers uuid4 hands out
DefaultMaxProposals == 5    \* request_data.get("max_proposals", 5)

\* str(uuid.uuid4()) of handle_upload: the n-th identifier
Uuid(n) == [k |-> "str", uuid |-> n]
\* an identifier of a proposal or a profile: not told apart here
OpaqueUuid == JStr("uuid4")
\* datetime.isoformat()
IsoFormat(now) == [k |-> "str", iso |-> now]
\* a str that is the text of a JSON document
StrOfText(text) == [k |-> "str", text |-> text]
\* a str of prose, by its number of words
StrProse(words) == [k |-> "str", words |-> words]

\* json.dumps of a value JSON can carry; the members of an object in one fixed order
RECURSIVE JsonDumps(_), DumpMembers(_, _)
JsonDumps(v) ==
    CASE v.k = "arr" -> Array([i \in DOMAIN v.a |-> JsonDumps(v.a[i])])
      [] v.k = "obj" -> Object(DumpMembers(v.o, DOMAIN v.o))
      [] OTHER -> << TLit(v) >>
DumpMembers(o, keys) ==
    IF keys = {} THEN << >>
    ELSE LET key == CHOOSE x \in keys : TRUE
         IN  << Member(key, JsonDumps(o[key])) >> \o DumpMembers(o, keys \ { key })

\* what a handler does: it returns a dictionary or an exception leaves it
Dict(v) == [kind |-> "dict", v |-> v]
RaisedError == [kind |-> "raise"]

ErrorReply(message) == JObj([success |-> JBool(FALSE), error |-> JStr(message)])

\* the external calls one run issues
NoCalls ==
    [scorer |-> 0, proposal |-> 0, profile |-> 0, embedding |-> 0, index |-> 0,
     embeddings |-> << >>, documents |-> << >>]

Handled(result, store, issued) == [result |-> result, sessions |-> store, calls |-> issued]

\* "not session_id or session_id not in sessions": "invalid" when it is true,
\* "ok" when it is false, "raise" for the TypeError of an unhashable key
SessionCheck(session_id, store) ==
    IF ~Truthy(session_id) THEN "invalid"
    ELSE IF ~Hashable(session_id) THEN "raise"
    ELSE IF session_id \notin DOMAIN store THEN "invalid"
    ELSE "ok"

\* opportunity.get(key, {}).get(...) raises AttributeError
NoDict(opportunity, key) == Get(opportunity, key, EmptyDict).k # "obj"

\* datetime.strptime raises TypeError: _parse_date gets a value that is
\* neither falsy nor a str
NoDateStr(date_str) == date_str.k # "str" /\ Truthy(date_str)

\* _is_expired raises on the opportunity
IsExpiredRaises(opportunity) ==
    \/ opportunity.k # "obj"
    \/ NoDict(opportunity, "dates")
    \/ LET dates == Get(opportunity, "dates", EmptyDict)
       IN  \/ NoDateStr(Get(dates, "application_deadline", None))
           \/ /\ ~Truthy(Get(dates, "application_deadline", None))
              /\ NoDateStr(Get(dates, "start_date", None))

\* _prepare_opportunity_text raises on an opportunity that _is_expired took
PrepareRaises(opportunity) ==
    NoDict(opportunity, "location") \/ NoDict(opportunity, "compensation")

\* RankingService.rank_opportunities as one call: the loop of lines 274-278
\* calls _is_expired on every opportunity, rank_opportunities_with_ai prepares
\* the text of every valid one before its try block, and lines 303-340 read
\* the application of every valid one
RankOpportunities(opps, now, response) ==
    IF \E i \in DOMAIN opps : IsExpiredRaises(opps[i])
    THEN [outcome |-> Raised, scorer_calls |-> 0]
    ELSE LET valid == ValidOf(opps, now)
             expired == ExpiredCountOf(opps, now)
         IN  IF valid = << >>
             THEN [outcome |-> Returned(<< >>, Len(opps), 0, expired), scorer_calls |-> 0]
             ELSE IF \E i \in DOMAIN valid : PrepareRaises(valid[i])
             THEN [outcome |-> Raised, scorer_calls |-> 0]
             ELSE IF \E i \in DOMAIN valid : NoDict(valid[i], "application")
             THEN [outcome |-> Raised, scorer_calls |-> 1]
             ELSE [outcome |-> MergeAndSort(opps, valid, expired, ParseRankings(response), now),
                   scorer_calls |-> 1]

\* the dictionary rank_opportunities returns
ResultDict(result) ==
    JObj([ ranked_opportunities |->
               JArr([i \in DOMAIN result.ranked_opportunities |->
                        JObj(result.ranked_opportunities[i])]),
           total_opportunities |-> JInt(result.total_opportunities),
           valid_opportunities |-> JInt(result.valid_opportunities),
           expired_opportunities |-> JInt(result.expired_opportunities) ])

\* a rank handler that reads the session with a default instead of checking it
HandleRankNoCheck(request_data, store, now, response) ==
    LET session_id == Get(request_data, "session_id", None)
        known == Hashable(session_id) /\ session_id \in DOMAIN store
        session == IF known THEN store[session_id] ELSE EmptyDict
        opps == Get(session, "opportunities", EmptyList).a
        ranking == RankOpportunities(opps, now, response)
        issued == [NoCalls EXCEPT !.scorer = ranking.scorer_calls]
    IN  IF ~Hashable(session_id) THEN Handled(RaisedError, store, NoCalls)
        ELSE IF ranking.outcome.kind = "raised"
        THEN Handled(Dict(ErrorReply("exception")), store, issued)
        ELSE Handled(Dict(JObj([ success |-> JBool(TRUE), session_id |-> session_id ])),
                     (session_id :> Put(session, "rankings", ResultDict(ranking.outcome.result)))
                         @@ store,
                     issued)

\* a rank handler that drops the stored rankings when the ranking pass raises
HandleRankClearing(request_data, store, now, response) ==
    LET session_id == Get(request_data, "session_id", None)
        check == SessionCheck(session_id, store)
    IN  IF check = "invalid"
        THEN Handled(Dict(ErrorReply("Invalid or expired session. Please upload data first.")),
                     store, NoCalls)
        ELSE IF check = "raise" THEN Handled(RaisedError, store, NoCalls)
        ELSE LET session == store[session_id]
                 ranking == RankOpportunities(session.o["opportunities"].a, now, response)
                 ranking_result == ResultDict(ranking.outcome.result)
                 issued == [NoCalls EXCEPT !.scorer = ranking.scorer_calls]
             IN  IF ranking.outcome.kind = "raised"
                 THEN Handled(Dict(ErrorReply("exception")),
                              [store EXCEPT ![session_id] = Put(@, "rankings", EmptyDict)],
                              issued)
                 ELSE Handled(
                        Dict(JObj([ success |-> JBool(TRUE),
                                    session_id |-> session_id,
                                    profile_summary |->
                                        Get(session.o["profile"], "profile_summary", StrEmpty),
                                    total_opportunities |-> ranking_result.o["total_opportunities"],
                                    valid_opportunities |-> ranking_result.o["valid_opportunities"],
                                    expired_opportunities |-> ranking_result.o["expired_opportunities"],
                                    ranked_opportunities |-> ranking_result.o["ranked_opportunities"] ])),
                        [store EXCEPT ![session_id] = Put(@, "rankings", ranking_result)],
                        issued)

\* handle_rank
HandleRank(request_data, store, now, response) ==
    LET session_id == Get(request_data, "session_id", None)
        check == SessionCheck(session_id, store)
    IN  IF check = "invalid"
        THEN Handled(Dict(ErrorReply("Invalid or expired session. Please upload data first.")),
                     store, NoCalls)
        ELSE IF check = "raise" THEN Handled(RaisedError, store, NoCalls)
        ELSE LET session == store[session_id]
                 profile == session.o["profile"]
                 ranking == RankOpportunities(session.o["opportunities"].a, now, response)
                 ranking_result == ResultDict(ranking.outcome.result)
                 issued == [NoCalls EXCEPT !.scorer = ranking.scorer_calls]
             IN  IF ranking.outcome.kind = "raised"
                 THEN Handled(Dict(ErrorReply("exception")), store, issued)
                 ELSE Handled(
                        Dict(JObj([ success |-> JBool(TRUE),
                                    session_id |-> session_id,
                                    profile_summary |-> Get(profile, "profile_summary", StrEmpty),
                                    total_opportunities |-> ranking_result.o["total_opportunities"],
                                    valid_opportunities |-> ranking_result.o["valid_opportunities"],
                                    expired_opportunities |-> ranking_result.o["expired_opportunities"],
                                    ranked_opportunities |-> ranking_result.o["ranked_opportunities"] ])),
                        [store EXCEPT ![session_id] = Put(@, "rankings", ranking_result)],
                        issued)

\* ProposalGeneratorService._create_fallback_proposal; the text has 45 words
\* besides the event name, the word_count it states is 50
FallbackProposal(opportunity, now) ==
    JObj([ id |-> OpaqueUuid,
           opportunity_id |-> Get(opportunity, "opportunity_id", Get(opportunity, "id", StrEmpty)),
           event_name |-> Get(opportunity, "event_name", JStr("your event")),
           subject_line |-> StrProse(4),
           greeting |-> StrProse(3),
           opening_paragraph |-> StrProse(12),
           value_proposition |-> StrProse(15),
           relevant_experience |-> StrProse(12),
           proposed_topics |-> JArr(<< StrProse(9) >>),
           closing_paragraph |-> StrProse(24),
           signature |-> StrProse(2),
           full_proposal |-> StrProse(46),
           generated_at |-> IsoFormat(now),
           word_count |-> JInt(50) ])

\* the metadata lines as they would be if they kept what the model supplied
WithMetadataKeeping(proposal_data, opportunity, now) ==
    IF proposal_data.k # "obj" THEN Fail
    ELSE LET full == Get(proposal_data, "full_proposal", None)
             stamped ==
                 JObj(proposal_data.o
                      @@ [ id |-> OpaqueUuid,
                           opportunity_id |->
                               Get(opportunity, "opportunity_id", Get(opportunity, "id", StrEmpty)),
                           event_name |-> Get(opportunity, "event_name", JStr("Unknown Event")),
                           generated_at |-> IsoFormat(now) ])
         IN  IF ~Truthy(full) THEN [ok |-> TRUE, v |-> Put(stamped, "word_count", JInt(0))]
             ELSE IF full.k = "str" /\ "words" \in DOMAIN full
                  THEN [ok |-> TRUE, v |-> Put(stamped, "word_count", JInt(full.words))]
                  ELSE Fail

\* the metadata lines 181-189 of generate_proposal; not ok for the TypeError
\* or AttributeError that the outer handler turns into the fallback
WithMetadata(proposal_data, opportunity, now) ==
    IF proposal_data.k # "obj" THEN Fail
    ELSE LET full == Get(proposal_data, "full_proposal", None)
             stamped == Put(Put(Put(Put(proposal_data, "id", OpaqueUuid),
                            "opportunity_id",
                            Get(opportunity, "opportunity_id", Get(opportunity, "id", StrEmpty))),
                            "event_name", Get(opportunity, "event_name", JStr("Unknown Event"))),
                            "generated_at", IsoFormat(now))
         IN  IF ~Truthy(full) THEN [ok |-> TRUE, v |-> Put(stamped, "word_count", JInt(0))]
             ELSE IF full.k = "str" /\ "words" \in DOMAIN full
                  THEN [ok |-> TRUE, v |-> Put(stamped, "word_count", JInt(full.words))]
                  ELSE Fail

\* ProposalGeneratorService.generate_proposal for an opportunity whose
\* matching_keywords and match_reasons are lists of strs
GenerateProposalFor(opportunity, now, answer) ==
    IF answer.kind # "text" THEN FallbackProposal(opportunity, now)
    ELSE LET result_text == answer.text
             direct == JsonLoads(result_text)
             start_idx == Find(result_text, "{")
             end_idx == RFind(result_text, "}") + 1
             proposal_data ==
                 IF direct.ok THEN direct
                 ELSE IF start_idx # -1 /\ end_idx > start_idx
                      THEN JsonLoads(Slice(result_text, start_idx, end_idx))
                      ELSE [ok |-> TRUE, v |-> FallbackProposal(opportunity, now)]
         IN  IF ~proposal_data.ok THEN FallbackProposal(opportunity, now)
             ELSE LET stamped == WithMetadata(proposal_data.v, opportunity, now)
                  IN  IF stamped.ok THEN stamped.v ELSE FallbackProposal(opportunity, now)

\* a lookup that settles for the first ranked opportunity when none has the id
FindOpportunityOrFirst(ranked_opps, opportunity_id, i) ==
    IF \E j \in DOMAIN ranked_opps :
          Get(ranked_opps[j], "opportunity_id", None) = opportunity_id
    THEN ranked_opps[CHOOSE j \in DOMAIN ranked_opps :
                        /\ Get(ranked_opps[j], "opportunity_id", None) = opportunity_id
                        /\ \A h \in 1 .. j - 1 :
                              Get(ranked_opps[h], "opportunity_id", None) # opportunity_id]
    ELSE IF ranked_opps # << >> THEN ranked_opps[1]
    ELSE None

\* the first ranked opportunity whose opportunity_id equals the one asked for, or None
RECURSIVE FindOpportunity(_, _, _)
FindOpportunity(ranked_opps, opportunity_id, i) ==
    IF i > Len(ranked_opps) THEN None
    ELSE IF Get(ranked_opps[i], "opportunity_id", None) = opportunity_id THEN ranked_opps[i]
    ELSE FindOpportunity(ranked_opps, opportunity_id, i + 1)

\* session.get("rankings", {}).get("ranked_opportunities", [])
RankedOppsOf(session) ==
    Get(Get(session, "rankings", EmptyDict), "ranked_opportunities", EmptyList).a

\* handle_generate_proposal
HandleGenerateProposal(request_data, store, now, answer) ==
    LET session_id == Get(request_data, "session_id", None)
        opportunity_id == Get(request_data, "opportunity_id", None)
        check == SessionCheck(session_id, store)
    IN  IF check = "invalid"
        THEN Handled(Dict(ErrorReply("Invalid or expired session.")), store, NoCalls)
        ELSE IF check = "raise" THEN Handled(RaisedError, store, NoCalls)
        ELSE LET session == store[session_id]
                 opportunity == FindOpportunity(RankedOppsOf(session), opportunity_id, 1)
             IN  IF ~Truthy(opportunity)
                 THEN Handled(Dict(ErrorReply("Opportunity not found in rankings.")),
                              store, NoCalls)
                 ELSE Handled(
                        Dict(JObj([ success |-> JBool(TRUE),
                                    session_id |-> session_id,
                                    proposal |-> GenerateProposalFor(opportunity, now, answer) ])),
                        store,
                        [NoCalls EXCEPT !.proposal = 1])

\* ranked_opportunities[:max_proposals] for an int max_proposals
Top(ranked_opps, max_proposals) ==
    IF max_proposals >= 0
    THEN SubSeq(ranked_opps, 1, IF max_proposals < Len(ranked_opps)
                                THEN max_proposals ELSE Len(ranked_opps))
    ELSE SubSeq(ranked_opps, 1, IF Len(ranked_opps) + max_proposals > 0
                                THEN Len(ranked_opps) + max_proposals ELSE 0)

\* ProposalGeneratorService.generate_proposals_batch: answers[i] is what the
\* i-th chat-completion call does
GenerateProposalsBatch(ranked_opps, max_proposals, now, answers) ==
    LET top_opportunities == Top(ranked_opps, max_proposals)
    IN  [i \in DOMAIN top_opportunities |->
            GenerateProposalFor(top_opportunities[i], now, answers[i])]

\* format_all_proposals_for_download: the text, by the event names it lists
DownloadText(proposals) ==
    [k |-> "str", download |-> [i \in DOMAIN proposals |-> proposals[i].o["event_name"]]]

\* handle_generate_all_proposals
HandleGenerateAllProposals(request_data, store, now, answers) ==
    LET session_id == Get(request_data, "session_id", None)
        max_proposals == Get(request_data, "max_proposals", JInt(DefaultMaxProposals))
        check == SessionCheck(session_id, store)
    IN  IF check = "invalid"
        THEN Handled(Dict(ErrorReply("Invalid or expired session.")), store, NoCalls)
        ELSE IF check = "raise" THEN Handled(RaisedError, store, NoCalls)
        ELSE LET ranked_opps == RankedOppsOf(store[session_id])
             IN  IF ranked_opps = << >>
                 THEN Handled(Dict(ErrorReply("No ranked opportunities. Please run ranking first.")),
                              store, NoCalls)
                 ELSE IF max_proposals.k \notin { "int", "null" }
                 THEN Handled(Dict(ErrorReply("exception")), store, NoCalls)
                 ELSE LET proposals ==
                              GenerateProposalsBatch(
                                  ranked_opps,
                                  IF max_proposals.k = "null" THEN Len(ranked_opps)
                                  ELSE max_proposals.n,
                                  now, answers)
                      IN  Handled(
                            Dict(JObj([ success |-> JBool(TRUE),
                                        session_id |-> session_id,
                                        proposals |-> JArr(proposals),
                                        download_text |-> DownloadText(proposals),
                                        total_generated |-> JInt(Len(proposals)) ])),
                            store,
                            [NoCalls EXCEPT !.proposal = Len(proposals)])

\* what parse_profile_with_ai and create_profile_summary do: one raises, or
\* the two make a profile of the text "cv"
ParsedProfile ==
    Dict(JObj([ profile_id |-> OpaqueUuid,
                profile_data |-> EmptyDict,
                profile_summary |-> StrProse(20),
                raw_text |-> JStr("cv") ]))

\* a text of nothing but whitespace
StrBlank == JStr(" ")

\* ProfileParserService.parse_profile for a request without a resume; parsed is
\* what parse_profile_with_ai and create_profile_summary make of the text
ParseProfile(request_data, parsed) ==
    LET profile_text == Get(request_data, "profile_text", None)
        preferences_text == Get(request_data, "preferences_text", None)
        raw_text == IF Truthy(profile_text) THEN profile_text ELSE StrEmpty
    IN  IF raw_text = StrEmpty \/ raw_text = StrBlank
        THEN Dict(JObj([ profile_id |-> OpaqueUuid,
                         profile_data |-> EmptyDict,
                         profile_summary |-> IF Truthy(preferences_text) THEN preferences_text
                                             ELSE JStr("No profile provided"),
                         raw_text |-> IF Truthy(preferences_text) THEN preferences_text
                                      ELSE StrEmpty ]))
        ELSE parsed

\* what self.client.embeddings.create gives: an exception or a vector
Embedded(vector) == [kind |-> "embedding", embedding |-> JArr(vector)]
Vector == Embedded(<< JNum(5) >>)

\* EmbeddingService.generate_embedding
GenerateEmbedding(text, provider) ==
    IF text = StrEmpty \/ text = StrBlank THEN None
    ELSE IF provider.kind = "raise" THEN None
    ELSE provider.embedding

\* the f-string of line 144
OppText(opp) ==
    [k |-> "str", joined |-> << Get(opp, "event_name", StrEmpty),
                                Get(opp, "description", StrEmpty),
                                Get(opp, "event_type", StrEmpty) >>]

\* the elements of a list that come before its first element that is no dict
RECURSIVE DictPrefix(_)
DictPrefix(list) ==
    IF list = << >> \/ Head(list).k # "obj" THEN << >>
    ELSE << Head(list) >> \o DictPrefix(Tail(list))

\* the documents of lines 123-155 without the two "if embedding:" tests
DocumentsOfAll(session_id, profile_chunks, records, embeddings) ==
    [i \in 1 .. Len(profile_chunks) + Len(records) |->
        IF i <= Len(profile_chunks)
        THEN JObj([ id |-> JArr(<< session_id, JStr("profile"), JInt(i - 1) >>),
                    session_id |-> session_id,
                    document_type |-> JStr("profile"),
                    content |-> profile_chunks[i],
                    metadata |-> JObj([chunk_index |-> JInt(i - 1)]) ])
        ELSE LET opp == records[i - Len(profile_chunks)]
             IN  JObj([ id |-> JArr(<< session_id, JStr("opp"), Get(opp, "id", OpaqueUuid) >>),
                        session_id |-> session_id,
                        document_type |-> JStr("opportunity"),
                        content |-> OppText(opp),
                        metadata |-> opp ])]

\* the documents of lines 123-155, with None where no document is appended
Documents(session_id, profile_chunks, records, embeddings) ==
    [i \in 1 .. Len(profile_chunks) + Len(records) |->
        IF ~Truthy(embeddings[i]) THEN None
        ELSE IF i <= Len(profile_chunks)
        THEN JObj([ id |-> JArr(<< session_id, JStr("profile"), JInt(i - 1) >>),
                    session_id |-> session_id,
                    document_type |-> JStr("profile"),
                    content |-> profile_chunks[i],
                    metadata |-> JObj([chunk_index |-> JInt(i - 1)]) ])
        ELSE LET opp == records[i - Len(profile_chunks)]
             IN  JObj([ id |-> JArr(<< session_id, JStr("opp"), Get(opp, "id", OpaqueUuid) >>),
                        session_id |-> session_id,
                        document_type |-> JStr("opportunity"),
                        content |-> OppText(opp),
                        metadata |-> opp ])]

\* handle_upload for a request without a resume whose opportunities, when the
\* request carries them, are a list.  failing: the calls of generate_embedding,
\* by their number, at which the provider raises; chunk_text gives one chunk
\* for a raw_text of at most 1000 characters.
HandleUpload(request_data, store, session_id, now, parsed_profile, failing) ==
    LET profile_result == ParseProfile(request_data, parsed_profile)
        opportunities_json == Get(request_data, "opportunities_json", StrOfText(Object(<< >>)))
        loaded == IF opportunities_json.k # "str" THEN [ok |-> TRUE, v |-> opportunities_json]
                  ELSE IF "text" \in DOMAIN opportunities_json
                       THEN JsonLoads(opportunities_json.text)
                       ELSE Fail
        opportunity_list == Get(loaded.v, "opportunities", EmptyList)
        stored == (session_id :> JObj([ profile |-> profile_result.v,
                                        opportunities |-> opportunity_list,
                                        created_at |-> IsoFormat(now) ])) @@ store
        profile_text == Get(profile_result.v, "raw_text", StrEmpty)
        profile_chunks == IF Truthy(profile_text) THEN << profile_text >> ELSE << >>
        records == DictPrefix(opportunity_list.a)
        texts == profile_chunks \o [i \in DOMAIN records |-> OppText(records[i])]
        embeddings == [i \in DOMAIN texts |->
                          GenerateEmbedding(texts[i], IF i \in failing THEN CallRaises ELSE Vector)]
        documents_to_index ==
            SelectSeq(Documents(session_id, profile_chunks, records, embeddings),
                      LAMBDA document : document # None)
        parsed == [NoCalls EXCEPT !.profile = 1]
        embedded == [parsed EXCEPT !.embedding = Len(texts), !.embeddings = embeddings]
    IN  IF ~loaded.ok \/ loaded.v.k # "obj" \/ opportunity_list.k # "arr"
        THEN Handled(Dict(ErrorReply("exception")), store, NoCalls)
        ELSE IF profile_result.kind = "raise"
        THEN Handled(Dict(ErrorReply("exception")), store, parsed)
        ELSE IF Len(records) < Len(opportunity_list.a)
        THEN Handled(Dict(ErrorReply("exception")), stored, embedded)
        ELSE Handled(
               Dict(JObj([ success |-> JBool(TRUE),
                           session_id |-> session_id,
                           profile_summary |-> Get(profile_result.v, "profile_summary", StrEmpty),
                           opportunities_count |-> JInt(Len(opportunity_list.a)),
                           message |-> StrProse(5) ])),
               stored,
               [embedded EXCEPT !.documents = documents_to_index,
                                !.index = IF documents_to_index # << >> THEN 1 ELSE 0])

\* run without its except clause
Propagated(result) == result

\* the except clause of run, lines 391-396
Caught(result) ==
    IF result.kind = "raise" THEN Dict(ErrorReply("exception")) ELSE result

\* what run does for its caller: the text json.dumps writes, or an exception
Returns(result) ==
    IF result.kind = "raise" THEN [kind |-> "raised"]
    ELSE [kind |-> "returned", text |-> JsonDumps(result.v)]

ValidActions == { "upload", "rank", "generate_proposal", "generate_all_proposals", "health" }

\* the branch of run that raw_data takes: "raise" when json.loads or
\* request_data.get raises, "unknown" for the else branch
RouteOf(raw_data) ==
    LET loaded == JsonLoads(raw_data)
    IN  IF ~loaded.ok THEN "raise"
        ELSE IF loaded.v.k # "obj" THEN "raise"
        ELSE LET action == Get(loaded.v, "action", StrEmpty)
             IN  IF action.k = "str" /\ "s" \in DOMAIN action /\ action.s \in ValidActions
                 THEN action.s
                 ELSE "unknown"

RequestData(raw_data) == JsonLoads(raw_data).v

----------------------------------------------------------------------------
(* Requests *)

ProfileOutcomes == { RaisedError, ParsedProfile }

\* the calls of generate_embedding, by their number, at which the provider raises
EmbeddingFailures == { {}, {1}, {2}, 1 .. MaxOpps + 1 }

\* a record whose dates are null, as the extraction writes them for an
\* opportunity without dates
NullDatesOpp(id) ==
    JObj([ id |-> JStr(id), event_name |-> JStr("Conf"), dates |-> None ])

UploadLists == { << ExampleC, ExampleA, ExampleB >> }
\* a list with a record of null dates before a sibling
NullDatesLists == { << NullDatesOpp("n"), ExampleA >> }
\* a list whose second element is no record
NoRecordLists == { << ExampleA, JStr("x") >> }

SessionIdValues ==
    { Uuid(n) : n \in 1..MaxSessions }
    \cup { JStr("nope"), JArr(<< JStr("x") >>) }

\* the session_id member of a request, or none
SessionMembers ==
    { << >> } \cup { << Member("session_id", JsonDumps(v)) >> : v \in SessionIdValues }

ActionMember(action) == Member("action", << TStr(action) >>)

OpportunitiesMember(list) ==
    Member("opportunities_json",
           << TLit(StrOfText(JsonDumps(JObj([opportunities |-> JArr(list)])))) >>)

UploadRequests ==
    { Object(<< ActionMember("upload"), Member("profile_text", << TStr("cv") >>) >> \o o) :
        o \in { << >>,
                << Member("opportunities_json",
                          Object(<< Member("opportunities", Array(<< >>)) >>)) >>,
                << Member("opportunities_json", << TLit(StrOfText(<< TWord >>)) >>) >>,
                << Member("opportunities_json", << TLit(StrOfText(Array(<< >>))) >>) >> }
            \cup { << OpportunitiesMember(list) >> : list \in UploadLists \cup NoRecordLists } }
    \cup { Object(<< ActionMember("upload"), Member("preferences_text", << TStr(" ") >>),
                     OpportunitiesMember(list) >>) :
               list \in NullDatesLists }

RankRequests == { Object(<< ActionMember("rank") >> \o s) : s \in SessionMembers }

\* "a" is uploaded with a deadline ahead, "b" with one long past, "z" never
AskedIds == { "a", "b", "z" }

ProposalRequests ==
    { Object(<< ActionMember("generate_proposal") >> \o s \o o) :
        s \in SessionMembers,
        o \in { << >> } \cup { << Member("opportunity_id", << TStr(id) >>) >> : id \in AskedIds } }

BatchRequests ==
    { Object(<< ActionMember("generate_all_proposals") >> \o s \o m) :
        s \in SessionMembers,
        m \in { << >>, << Member("max_proposals", << TLit(JInt(1)) >>) >> } }
    \cup { Object(<< ActionMember("generate_all_proposals"),
                     Member("session_id", << TLit(Uuid(1)) >>),
                     Member("max_proposals", << TStr("x") >>) >>) }

OtherRequests ==
    { Object(<< ActionMember("health") >>),
      Object(<< ActionMember("delete") >>),
      Object(<< Member("session_id", << TLit(Uuid(1)) >>) >>),
      << TWord >>,
      << >>,
      Array(<< >>),
      << TNull >> }

RawRequests ==
    UploadRequests \cup RankRequests \cup ProposalRequests \cup BatchRequests \cup OtherRequests

\* the requests that take each branch of run
UploadRouted == { raw_data \in RawRequests : RouteOf(raw_data) = "upload" }
RankRouted == { raw_data \in RawRequests : RouteOf(raw_data) = "rank" }
ProposalRouted == { raw_data \in RawRequests : RouteOf(raw_data) = "generate_proposal" }
BatchRouted == { raw_data \in RawRequests : RouteOf(raw_data) = "generate_all_proposals" }
HealthRouted == { raw_data \in RawRequests : RouteOf(raw_data) = "health" }
UnknownRouted == { raw_data \in RawRequests : RouteOf(raw_data) = "unknown" }
RaiseRouted == { raw_data \in RawRequests : RouteOf(raw_data) = "raise" }

EndpointScorerReplies ==
    { CallRaises, Content(Array(<< Entry("a", 3) >>)), Content(Array(<< NoIdEntry(9) >>)) }

ProposalAnswers ==
    { CallRaises,
      Content(Object(<< Member("full_proposal", << TLit(StrProse(120)) >>) >>)),
      Content(<< TWord >>) }

\* what the chat-completion calls of one batch do, call by call
BatchAnswers ==
    { << Content(Object(<< Member("full_proposal", << TLit(StrProse(120)) >>) >>)), CallRaises >>,
      << CallRaises, Content(<< TWord >>) >> }

----------------------------------------------------------------------------
(* The endpoint: one action per branch of run *)

Init ==
    /\ sessions = << >>
    /\ uuid_next = 0
    /\ clock = 1
    /\ request = << >>
    /\ reply = [kind |-> "none"]
    /\ calls = NoCalls
    /\ opportunities = << >>
    /\ current_date = Instants[1]
    /\ pc = "idle"
    /\ valid_opportunities = << >>
    /\ expired_count = 0
    /\ scorer_calls = 0
    /\ scorer_input = << >>
    /\ scorer_reply = NoReply
    /\ outcome = Running
    /\ raw_response = << >>
    /\ keywords = EmptyList
    /\ stage = "idle"
    /\ raw_opportunities = None
    /\ validated = << >>
    /\ revalidated = << >>
    /\ full_text = << >>
    /\ chunk_size = 1
    /\ overlap = 0
    /\ chunk_pc = "idle"
    /\ start = 0
    /\ end = 0
    /\ chunks = << >>
    /\ call_args = [fn |-> "none"]
    /\ call_result = [kind |-> "pending"]

\* what a run leaves behind
Served(raw_data, handled) ==
    /\ request' = raw_data
    /\ reply' = Returns(Caught(handled.result))
    /\ sessions' = handled.sessions
    /\ calls' = handled.calls

Upload ==
    /\ uuid_next < MaxSessions
    /\ \E raw_data \in UploadRouted, profile_result \in ProfileOutcomes, failing \in EmbeddingFailures :
          Served(raw_data, HandleUpload(RequestData(raw_data), sessions, Uuid(uuid_next + 1),
                                           Instants[clock], profile_result, failing))
    /\ uuid_next' = uuid_next + 1
    /\ UNCHANGED clock
    /\ UNCHANGED rankVars
    /\ UNCHANGED extractVars
    /\ UNCHANGED chunkVars
    /\ UNCHANGED callVars

Rank ==
    /\ \E raw_data \in RankRouted, response \in EndpointScorerReplies :
          Served(raw_data, HandleRank(RequestData(raw_data), sessions, Instants[clock], response))
    /\ UNCHANGED <<uuid_next, clock>>
    /\ UNCHANGED rankVars
    /\ UNCHANGED extractVars
    /\ UNCHANGED chunkVars
    /\ UNCHANGED callVars

GenerateProposal ==
    /\ \E raw_data \in ProposalRouted, answer \in ProposalAnswers :
          Served(raw_data, HandleGenerateProposal(RequestData(raw_data), sessions,
                                                     Instants[clock], answer))
    /\ UNCHANGED <<uuid_next, clock>>
    /\ UNCHANGED rankVars
    /\ UNCHANGED extractVars
    /\ UNCHANGED chunkVars
    /\ UNCHANGED callVars

GenerateAllProposals ==
    /\ \E raw_data \in BatchRouted, answers \in BatchAnswers :
          Served(raw_data, HandleGenerateAllProposals(RequestData(raw_data), sessions,
                                                         Instants[clock], answers))
    /\ UNCHANGED <<uuid_next, clock>>
    /\ UNCHANGED rankVars
    /\ UNCHANGED extractVars
    /\ UNCHANGED chunkVars
    /\ UNCHANGED callVars

Health ==
    /\ \E raw_data \in HealthRouted :
          Served(raw_data,
                    Handled(Dict(JObj([success |-> JBool(TRUE), status |-> JStr("healthy")])),
                            sessions, NoCalls))
    /\ UNCHANGED <<uuid_next, clock>>
    /\ UNCHANGED rankVars
    /\ UNCHANGED extractVars
    /\ UNCHANGED chunkVars
    /\ UNCHANGED callVars

UnknownAction ==
    /\ \E raw_data \in UnknownRouted :
          Served(raw_data, Handled(Dict(ErrorReply("Unknown action")), sessions, NoCalls))
    /\ UNCHANGED <<uuid_next, clock>>
    /\ UNCHANGED rankVars
    /\ UNCHANGED extractVars
    /\ UNCHANGED chunkVars
    /\ UNCHANGED callVars

\* json.loads(raw_data) or request_data.get raises
BadRequest ==
    /\ \E raw_data \in RaiseRouted :
          Served(raw_data, Handled(RaisedError, sessions, NoCalls))
    /\ UNCHANGED <<uuid_next, clock>>
    /\ UNCHANGED rankVars
    /\ UNCHANGED extractVars
    /\ UNCHANGED chunkVars
    /\ UNCHANGED callVars

\* time passes between two requests
Tick ==
    /\ clock < Len(Instants)
    /\ clock' = clock + 1
    /\ UNCHANGED <<sessions, uuid_next, request, reply, calls>>
    /\ UNCHANGED rankVars
    /\ UNCHANGED extractVars
    /\ UNCHANGED chunkVars
    /\ UNCHANGED callVars

Next ==
    \/ Upload
    \/ Rank
    \/ GenerateProposal
    \/ GenerateAllProposals
    \/ Health
    \/ UnknownAction
    \/ BadRequest
    \/ Tick

Spec == Init /\ [][Next]_vars

----------------------------------------------------------------------------
(* AIProcessor (src/backend): reading the model's answer *)

\* lines 114-120: what is returned when the whole answer is JSON
WholeResult(v) ==
    IF v.k = "arr" THEN v
    ELSE IF v.k = "obj" /\ "opportunities" \in DOMAIN v.o THEN v.o["opportunities"]
    ELSE JArr(<< v >>)

NotFound == [found |-> FALSE]
Found(v) == [found |-> TRUE, v |-> v]

\* lines 124-133: the text from the first '[' to the last ']'
ArrayInResponse(response) ==
    LET start_idx == Find(response, "[")
        end_idx == RFind(response, "]") + 1
        loaded == IF start_idx # -1 /\ end_idx > start_idx
                  THEN JsonLoads(Slice(response, start_idx, end_idx))
                  ELSE Fail
    IN  IF loaded.ok THEN Found(loaded.v) ELSE NotFound

\* lines 135-147: the text from the first '{' to the last '}'
ObjectInResponse(response) ==
    LET start_idx == Find(response, "{")
        end_idx == RFind(response, "}") + 1
        loaded == IF start_idx # -1 /\ end_idx > start_idx
                  THEN JsonLoads(Slice(response, start_idx, end_idx))
                  ELSE Fail
    IN  IF loaded.ok /\ loaded.v.k = "obj"
        THEN IF "opportunities" \in DOMAIN loaded.v.o
             THEN Found(loaded.v.o["opportunities"])
             ELSE Found(JArr(<< loaded.v >>))
        ELSE NotFound

\* _parse_opportunities where a failed search leaves the function by its exception
ParseOpportunitiesRaising(response) ==
    LET whole == JsonLoads(response)
        array == ArrayInResponse(response)
        object == ObjectInResponse(response)
    IN  IF whole.ok THEN WholeResult(whole.v)
        ELSE IF array.found THEN array.v
        ELSE IF object.found THEN object.v
        ELSE [k |-> "raise"]

\* _parse_opportunities, lines 101-150: the value it returns
ParseOpportunities(response) ==
    LET whole == JsonLoads(response)
        array == ArrayInResponse(response)
        object == ObjectInResponse(response)
    IN  IF whole.ok THEN WholeResult(whole.v)
        ELSE IF array.found THEN array.v
        ELSE IF object.found THEN object.v
        ELSE EmptyList

----------------------------------------------------------------------------
(* models/opportunity.py: the pydantic models.  Numbers are tenths. *)

\* an instance of a model class
Model(cls, fields) == [k |-> "model", cls |-> cls, o |-> fields]

Invalid == [ok |-> FALSE]
Valid(v) == [ok |-> TRUE, v |-> v]

\* a str that is the decimal text of a number, e.g. "0.7"
StrNumber(n) == [k |-> "str", number |-> n]

OpportunityTypes ==
    { "conference", "seminar", "webinar", "podcast", "panel", "workshop", "keynote", "other" }
CompensationTypes ==
    { "paid", "honorarium", "travel_only", "unpaid", "negotiable", "unknown" }

\* the strs a bool field reads as True and as False
TrueStrs == { "1", "on", "t", "true", "y", "yes" }
FalseStrs == { "0", "off", "f", "false", "n", "no" }

\* field of type str
ValidateStr(v) == IF v.k = "str" THEN Valid(v) ELSE Invalid

\* field of type Optional[str]
OptionalStr(v) == IF v = None THEN Valid(v) ELSE ValidateStr(v)

\* field of type Optional[bool]
OptionalBool(v) ==
    CASE v = None -> Valid(v)
      [] v.k = "bool" -> Valid(v)
      [] v.k = "num" /\ v.n \in { 0, 10 } -> Valid(JBool(v.n = 10))
      [] v.k = "str" /\ "s" \in DOMAIN v /\ v.s \in TrueStrs \cup FalseStrs ->
            Valid(JBool(v.s \in TrueStrs))
      [] OTHER -> Invalid

\* field of type Optional[float]
OptionalFloat(v) ==
    CASE v = None -> Valid(v)
      [] v.k = "num" -> Valid(v)
      [] v.k = "bool" -> Valid(JNum(IF v.b THEN 10 ELSE 0))
      [] v.k = "str" /\ "number" \in DOMAIN v -> Valid(JNum(v.number))
      [] OTHER -> Invalid

\* field of type Optional[float] with ge=0.0, le=1.0
OptionalUnitFloat(v) ==
    LET r == OptionalFloat(v)
    IN  IF r.ok /\ r.v # None /\ (r.v.n < 0 \/ r.v.n > 10) THEN Invalid ELSE r

\* field of type Optional[E] for a str enumeration E
OptionalEnum(v, members) ==
    CASE v = None -> Valid(v)
      [] v.k = "str" /\ "s" \in DOMAIN v /\ v.s \in members -> Valid(v)
      [] OTHER -> Invalid

\* field of type Optional[List[str]]
OptionalStrList(v) ==
    CASE v = None -> Valid(v)
      [] v.k = "arr" /\ (\A i \in DOMAIN v.a : v.a[i].k = "str") -> Valid(v)
      [] OTHER -> Invalid

\* BaseModel.__init__: the instance when every field validated
Construct(cls, results) ==
    IF \A key \in DOMAIN results : results[key].ok
    THEN Valid(Model(cls, [key \in DOMAIN results |-> results[key].v]))
    ELSE Invalid

\* data[key] = value when data.get(key) is None
Default(data, key, value) == IF Get(data, key, None) = None THEN Put(data, key, value) ELSE data

\* DateInfo(**data)
NewDateInfo(data) ==
    Construct("DateInfo",
              [ start_date |-> OptionalStr(Get(data, "start_date", None)),
                end_date |-> OptionalStr(Get(data, "end_date", None)),
                application_deadline |-> OptionalStr(Get(data, "application_deadline", None)) ])

\* Location(**data) without the replacement of None
NewLocationKeepsNone(data) ==
    Construct("Location",
              [ venue |-> OptionalStr(Get(data, "venue", None)),
                city |-> OptionalStr(Get(data, "city", None)),
                state |-> OptionalStr(Get(data, "state", None)),
                country |-> OptionalStr(Get(data, "country", None)),
                is_virtual |-> OptionalBool(Get(data, "is_virtual", JBool(FALSE))),
                has_virtual_option |-> OptionalBool(Get(data, "has_virtual_option", JBool(FALSE))) ])

\* Location(**data)
NewLocation(data) ==
    LET d == Default(Default(data, "is_virtual", JBool(FALSE)), "has_virtual_option", JBool(FALSE))
    IN  Construct("Location",
                  [ venue |-> OptionalStr(Get(d, "venue", None)),
                    city |-> OptionalStr(Get(d, "city", None)),
                    state |-> OptionalStr(Get(d, "state", None)),
                    country |-> OptionalStr(Get(d, "country", None)),
                    is_virtual |-> OptionalBool(d.o["is_virtual"]),
                    has_virtual_option |-> OptionalBool(d.o["has_virtual_option"]) ])

\* Compensation(**data)
NewCompensation(data) ==
    LET d == Default(Default(Default(Default(data, "is_paid", JBool(FALSE)),
                                     "includes_travel", JBool(FALSE)),
                             "includes_accommodation", JBool(FALSE)),
                     "compensation_type", JStr("unknown"))
    IN  Construct("Compensation",
                  [ is_paid |-> OptionalBool(d.o["is_paid"]),
                    compensation_type |-> OptionalEnum(d.o["compensation_type"], CompensationTypes),
                    amount |-> OptionalFloat(Get(d, "amount", None)),
                    currency |-> OptionalStr(Get(d, "currency", JStr("USD"))),
                    includes_travel |-> OptionalBool(d.o["includes_travel"]),
                    includes_accommodation |-> OptionalBool(d.o["includes_accommodation"]),
                    details |-> OptionalStr(Get(d, "details", None)) ])

\* ApplicationInfo(**data)
NewApplicationInfo(data) ==
    LET d == Default(data, "requirements", EmptyList)
    IN  Construct("ApplicationInfo",
                  [ url |-> OptionalStr(Get(d, "url", None)),
                    contact_email |-> OptionalStr(Get(d, "contact_email", None)),
                    requirements |-> OptionalStrList(d.o["requirements"]) ])

\* a field whose type is a model class: a dict goes through the class's
\* __init__, an instance of the class is taken as it is
Nested(v, cls) ==
    CASE v.k = "model" /\ v.cls = cls -> Valid(v)
      [] v.k = "obj" /\ cls = "DateInfo" -> NewDateInfo(v)
      [] v.k = "obj" /\ cls = "Location" -> NewLocation(v)
      [] v.k = "obj" /\ cls = "Compensation" -> NewCompensation(v)
      [] v.k = "obj" /\ cls = "ApplicationInfo" -> NewApplicationInfo(v)
      [] OTHER -> Invalid

\* Opportunity.__init__, lines 114-131: the defaults that replace None
OpportunityDefaults(data) ==
    Default(Default(Default(Default(Default(Default(Default(Default(data,
        "dates", EmptyDict),
        "location", EmptyDict),
        "compensation", EmptyDict),
        "application", EmptyDict),
        "target_audience", EmptyList),
        "keywords_matched", EmptyList),
        "event_type", JStr("other")),
        "confidence_score", JNum(5))

\* Opportunity(**raw): the instance, or not ok for ValidationError
NewOpportunity(raw) ==
    LET d == OpportunityDefaults(raw)
    IN  Construct("Opportunity",
                  [ id |-> IF "id" \in DOMAIN d.o THEN ValidateStr(d.o["id"]) ELSE Invalid,
                    event_name |-> IF "event_name" \in DOMAIN d.o
                                   THEN ValidateStr(d.o["event_name"]) ELSE Invalid,
                    event_type |-> OptionalEnum(d.o["event_type"], OpportunityTypes),
                    description |-> OptionalStr(Get(d, "description", None)),
                    dates |-> Nested(d.o["dates"], "DateInfo"),
                    location |-> Nested(d.o["location"], "Location"),
                    compensation |-> Nested(d.o["compensation"], "Compensation"),
                    application |-> Nested(d.o["application"], "ApplicationInfo"),
                    target_audience |-> OptionalStrList(d.o["target_audience"]),
                    expected_audience_size |-> OptionalStr(Get(d, "expected_audience_size", None)),
                    keywords_matched |-> OptionalStrList(d.o["keywords_matched"]),
                    source_url |-> OptionalStr(Get(d, "source_url", None)),
                    confidence_score |-> OptionalUnitFloat(d.o["confidence_score"]) ])

\* BaseModel.model_dump: the instance and the instances in it, as dicts
RECURSIVE ModelDump(_)
ModelDump(v) ==
    IF v.k = "model" THEN JObj([key \in DOMAIN v.o |-> ModelDump(v.o[key])]) ELSE v

----------------------------------------------------------------------------
(* AIProcessor._validate_and_fix_opportunities *)

\* f"opp_{uuid.uuid4().hex[:8]}": the n-th token uuid4 gave; no two are equal
OppId(n) == [k |-> "str", opp_hex |-> n]

\* what iterating raw_opportunities yields: the elements of a list, the keys
\* of a dict, the characters of a str; anything else is not iterable
Enumerable(v) == v.k \in { "arr", "obj", "str" }
RECURSIVE KeysOf(_)
KeysOf(keys) ==
    IF keys = {} THEN << >>
    ELSE LET key == CHOOSE x \in keys : TRUE
         IN  << JStr(key) >> \o KeysOf(keys \ { key })
Enumerate(v) ==
    CASE v.k = "arr" -> v.a
      [] v.k = "obj" -> KeysOf(DOMAIN v.o)
      [] v.k = "str" -> IF "s" \in DOMAIN v /\ v.s = "" THEN << >> ELSE << JStr("c") >>

Batch(list, made) == [list |-> list, made |-> made]

\* the loop of lines 169-189 where a record that fails ends the loop
RECURSIVE ValidateFromStopsAtFailure(_, _, _, _, _)
ValidateFromStopsAtFailure(raws, search_keywords, i, made, acc) ==
    IF i > Len(raws) THEN Batch(acc, made)
    ELSE LET raw == raws[i]
         IN  IF raw.k # "obj" THEN Batch(acc, made)
             ELSE LET fresh == ~Truthy(Get(raw, "id", None))
                      with_id == IF fresh THEN Put(raw, "id", OppId(made + 1)) ELSE raw
                      made_now == IF fresh THEN made + 1 ELSE made
                      with_keywords == IF ~Truthy(Get(with_id, "keywords_matched", None))
                                       THEN Put(with_id, "keywords_matched", search_keywords)
                                       ELSE with_id
                      opportunity == NewOpportunity(with_keywords)
                  IN  IF ~Truthy(Get(with_id, "event_name", None)) \/ ~opportunity.ok
                      THEN Batch(acc, made_now)
                      ELSE ValidateFromStopsAtFailure(raws, search_keywords, i + 1, made_now,
                                                      Append(acc, opportunity.v))

\* the loop of lines 169-189 where every record is given a new id
RECURSIVE ValidateFromNewIds(_, _, _, _, _)
ValidateFromNewIds(raws, search_keywords, i, made, acc) ==
    IF i > Len(raws) THEN Batch(acc, made)
    ELSE LET raw == raws[i]
         IN  IF raw.k # "obj" THEN ValidateFromNewIds(raws, search_keywords, i + 1, made, acc)
             ELSE LET with_id == Put(raw, "id", OppId(made + 1))
                      made_now == made + 1
                      with_keywords == IF ~Truthy(Get(with_id, "keywords_matched", None))
                                       THEN Put(with_id, "keywords_matched", search_keywords)
                                       ELSE with_id
                      opportunity == NewOpportunity(with_keywords)
                  IN  IF ~Truthy(Get(with_id, "event_name", None)) \/ ~opportunity.ok
                      THEN ValidateFromNewIds(raws, search_keywords, i + 1, made_now, acc)
                      ELSE ValidateFromNewIds(raws, search_keywords, i + 1, made_now,
                                              Append(acc, opportunity.v))

\* the loop of lines 169-189 from the i-th element on: made is the number of
\* ids generated so far, acc the list validated
RECURSIVE ValidateFrom(_, _, _, _, _)
ValidateFrom(raws, search_keywords, i, made, acc) ==
    IF i > Len(raws) THEN Batch(acc, made)
    ELSE LET raw == raws[i]
         IN  \* raw.get of anything but a dict raises AttributeError, caught at line 187
             IF raw.k # "obj" THEN ValidateFrom(raws, search_keywords, i + 1, made, acc)
             ELSE LET fresh == ~Truthy(Get(raw, "id", None))
                      with_id == IF fresh THEN Put(raw, "id", OppId(made + 1)) ELSE raw
                      made_now == IF fresh THEN made + 1 ELSE made
                      with_keywords == IF ~Truthy(Get(with_id, "keywords_matched", None))
                                       THEN Put(with_id, "keywords_matched", search_keywords)
                                       ELSE with_id
                      opportunity == NewOpportunity(with_keywords)
                  IN  IF ~Truthy(Get(with_id, "event_name", None)) \/ ~opportunity.ok
                      THEN ValidateFrom(raws, search_keywords, i + 1, made_now, acc)
                      ELSE ValidateFrom(raws, search_keywords, i + 1, made_now,
                                        Append(acc, opportunity.v))

\* _validate_and_fix_opportunities(raw_opportunities, keywords) after made ids:
\* the list it returns, or raised when enumerate has nothing to iterate
ValidateAndFix(parsed, search_keywords, made) ==
    IF Enumerable(parsed)
    THEN [raised |-> FALSE] @@ ValidateFrom(Enumerate(parsed), search_keywords, 1, made, << >>)
    ELSE [raised |-> TRUE, list |-> << >>, made |-> made]

\* the dumped form of a validated list, as a list of raw records
Dumped(list) == JArr([i \in DOMAIN list |-> ModelDump(list[i])])

----------------------------------------------------------------------------
(* Inputs of an extraction: the answers of the model *)

MaxRecords == 2

\* a complete record
RecordFull ==
    JObj([ id |-> JStr("a"), event_name |-> JStr("Conf"), event_type |-> JStr("conference"),
           location |-> JObj([ city |-> JStr("Paris"), is_virtual |-> None ]),
           keywords_matched |-> JArr(<< JStr("ml") >>), confidence_score |-> JNum(9) ])
\* a record with its name only
RecordNameOnly == JObj([ event_name |-> JStr("Talk") ])
\* a record where every optional field is null
RecordNulls ==
    JObj([ id |-> JStr("b"), event_name |-> JStr("Panel"), event_type |-> None,
           dates |-> None, location |-> None, compensation |-> None, application |-> None,
           target_audience |-> None, keywords_matched |-> None, confidence_score |-> None ])
\* a record whose sub-records hold nulls and values that are converted
RecordConverted ==
    JObj([ id |-> StrEmpty, event_name |-> JStr("Expo"),
           compensation |-> JObj([ is_paid |-> JStr("yes"), includes_travel |-> None,
                                   compensation_type |-> None, amount |-> StrNumber(1000) ]),
           application |-> JObj([ requirements |-> None ]),
           confidence_score |-> StrNumber(7) ])
\* records without a name
RecordNoName == JObj([ id |-> JStr("c") ])
RecordBlankName == JObj([ id |-> JStr("d"), event_name |-> StrEmpty ])
\* records that fail validation
RecordBadType == JObj([ id |-> JStr("e"), event_name |-> JStr("Meet"), event_type |-> JStr("meetup") ])
RecordNumberId == JObj([ id |-> JNum(70), event_name |-> JStr("Seven") ])
\* records whose confidence is outside 0.0 .. 1.0
RecordTooSure == JObj([ id |-> JStr("f"), event_name |-> JStr("Sure"), confidence_score |-> JNum(15) ])
RecordNegative == JObj([ id |-> JStr("g"), event_name |-> JStr("Low"), confidence_score |-> JNum(-1) ])
\* a second record with the id of RecordFull
RecordSameId == JObj([ id |-> JStr("a"), event_name |-> JStr("Again") ])

Records ==
    { RecordFull, RecordNameOnly, RecordNulls, RecordConverted, RecordNoName, RecordBlankName,
      RecordBadType, RecordNumberId, RecordTooSure, RecordNegative, RecordSameId, JStr("x") }

\* the JSON arrays an answer may hold
RecordArrays == { JArr(a) : a \in SeqsUpTo(Records, MaxRecords) }

\* prose before and after the array: words, a bracketed reference, an
\* enclosing object with words around it
Words == << TWord, TWord >>
Reference == << TWord, LB, TNum(10), RB, TWord >>
Wrappings ==
    { << << >>, << >> >>,
      << Words, << >> >>,
      << << >>, Words >>,
      << Words, Words >>,
      << Reference, << >> >>,
      << << >>, Reference >>,
      << Words \o << LC, TStr("opportunities"), COLON >>, << RC >> \o Words >>,
      << << LC, TStr("opportunities"), COLON >>, << RC >> >> }

Wrapped(wrapping, array) == wrapping[1] \o JsonDumps(array) \o wrapping[2]

\* answers that hold no array of records
OtherResponses ==
    { << >>,
      Words,
      << LB, LC, TStr("id"), COLON, TStr("a"), COMMA >>,
      << LC, TStr("id"), COLON >>,
      << RB, TWord, LB >>,
      << TNum(50) >>,
      << TStr("none") >>,
      << TNull >>,
      JsonDumps(JObj([ opportunities |-> None ])),
      JsonDumps(JObj([ opportunities |-> JStr("none") ])),
      JsonDumps(JObj([ opportunities |-> RecordFull ])),
      JsonDumps(RecordFull),
      Words \o JsonDumps(RecordFull) \o Words,
      Words \o JsonDumps(RecordNulls) \o Words,
      Words \o JsonDumps(JObj([ opportunities |-> None ])) \o Words }

Responses == { Wrapped(w, a) : w \in Wrappings, a \in RecordArrays } \cup OtherResponses

KeywordLists == { EmptyList, JArr(<< JStr("ai") >>) }

----------------------------------------------------------------------------
(* One extraction, process_search_results, step by step *)

InitExtract ==
    /\ raw_response \in Responses
    /\ keywords \in KeywordLists
    /\ stage = "start"
    /\ raw_opportunities = None
    /\ validated = << >>
    /\ revalidated = << >>
    /\ opportunities = << >>
    /\ current_date = Instants[1]
    /\ pc = "idle"
    /\ valid_opportunities = << >>
    /\ expired_count = 0
    /\ scorer_calls = 0
    /\ scorer_input = << >>
    /\ scorer_reply = NoReply
    /\ outcome = Running
    /\ sessions = << >>
    /\ uuid_next = 0
    /\ clock = 1
    /\ request = << >>
    /\ reply = [kind |-> "none"]
    /\ calls = NoCalls
    /\ full_text = << >>
    /\ chunk_size = 1
    /\ overlap = 0
    /\ chunk_pc = "idle"
    /\ start = 0
    /\ end = 0
    /\ chunks = << >>
    /\ call_args = [fn |-> "none"]
    /\ call_result = [kind |-> "pending"]

\* line 221: raw_opportunities = self._parse_opportunities(raw_response)
ParseResponse ==
    /\ stage = "start"
    /\ raw_opportunities' = ParseOpportunities(raw_response)
    /\ stage' = "parsed"
    /\ UNCHANGED <<raw_response, keywords, validated, revalidated>>
    /\ UNCHANGED rankVars
    /\ UNCHANGED endpointVars
    /\ UNCHANGED chunkVars
    /\ UNCHANGED callVars

\* lines 223-229: len(raw_opportunities), then _validate_and_fix_opportunities
Validate ==
    /\ stage = "parsed"
    /\ LET fixed == ValidateAndFix(raw_opportunities, keywords, 0)
       IN  IF fixed.raised \/ raw_opportunities.k \notin { "arr", "obj", "str" }
           THEN /\ stage' = "raised"
                /\ UNCHANGED validated
           ELSE /\ stage' = "validated"
                /\ validated' = fixed.list
    /\ UNCHANGED <<raw_response, keywords, raw_opportunities, revalidated>>
    /\ UNCHANGED rankVars
    /\ UNCHANGED endpointVars
    /\ UNCHANGED chunkVars
    /\ UNCHANGED callVars

\* the validated list is dumped and validated once more
Revalidate ==
    /\ stage = "validated"
    /\ revalidated' = ValidateAndFix(Dumped(validated), keywords,
                                      Len(Enumerate(raw_opportunities))).list
    /\ stage' = "again"
    /\ UNCHANGED <<raw_response, keywords, raw_opportunities, validated>>
    /\ UNCHANGED rankVars
    /\ UNCHANGED endpointVars
    /\ UNCHANGED chunkVars
    /\ UNCHANGED callVars

NextExtract == ParseResponse \/ Validate \/ Revalidate

SpecExtract == InitExtract /\ [][NextExtract]_vars

----------------------------------------------------------------------------
(* EmbeddingService.chunk_text (src/backend_b).  A str is the sequence of   *)
(* its characters.                                                          *)

Min(a, b) == IF a < b THEN a ELSE b

\* s[first:last] for 0 <= first: last is clamped to len(s)
StrSlice(s, first, last) == SubSeq(s, first + 1, Min(last, Len(s)))

\* s.rfind(sub): the 0-based index of the last occurrence of sub in s, or -1
RECURSIVE StrRFindFrom(_, _, _)
StrRFindFrom(s, sub, i) ==
    IF i < 1 THEN -1
    ELSE IF SubSeq(s, i, i + Len(sub) - 1) = sub THEN i - 1
    ELSE StrRFindFrom(s, sub, i - 1)
StrRFind(s, sub) == StrRFindFrom(s, sub, Len(s) - Len(sub) + 1)

\* s.strip()
Whitespace == { " ", "\n" }
RECURSIVE LStrip(_), RStrip(_)
LStrip(s) == IF s # << >> /\ Head(s) \in Whitespace THEN LStrip(Tail(s)) ELSE s
RStrip(s) ==
    IF s # << >> /\ s[Len(s)] \in Whitespace THEN RStrip(SubSeq(s, 1, Len(s) - 1)) ELSE s
Strip(s) == RStrip(LStrip(s))

\* line 121: the sentence separators, in the order they are tried
Separators == << << ".", " " >>, << ".", "\n" >>, << "!", " " >>, << "?", " " >>, << "\n", "\n" >> >>

\* lines 121-126: the offset after the first separator, in the order of the
\* list, whose last occurrence in the window starts past the midpoint; -1 if none
RECURSIVE SeparatorCut(_, _, _)
SeparatorCut(window, size, n) ==
    IF n > Len(Separators) THEN -1
    ELSE LET last_sep == StrRFind(window, Separators[n])
         IN  IF last_sep # -1 /\ last_sep > size \div 2
             THEN last_sep + Len(Separators[n])
             ELSE SeparatorCut(window, size, n + 1)

\* lines 116-130: the end of the window that starts at from
WindowEnd(s, from, size) ==
    LET raw_end == from + size
        window == StrSlice(s, from, raw_end)
        cut == SeparatorCut(window, size, 1)
        last_space == StrRFind(window, << " " >>)
    IN  IF raw_end < Len(s)
        THEN IF cut # -1 THEN from + cut
             ELSE IF last_space # -1 /\ last_space > size \div 2 THEN from + last_space + 1
             ELSE raw_end
        ELSE raw_end

\* lines 136-138: where the next window starts
NextStart(window_end, lap) == IF window_end - lap < 0 THEN 0 ELSE window_end - lap

----------------------------------------------------------------------------
(* Inputs of chunk_text: texts made of short pieces *)

MaxPieces == 6

Pieces == { << "a", "a" >>, << ".", " " >>, << "!", " " >>, << "a", " " >> }

RECURSIVE Concat(_)
Concat(pieces) == IF pieces = << >> THEN << >> ELSE Head(pieces) \o Concat(Tail(pieces))

Texts == { Concat(p) : p \in SeqsUpTo(Pieces, MaxPieces) }

ChunkSizes == { 5, 10 }
Overlaps(size) == { 0, 2, size - 1 }

----------------------------------------------------------------------------
(* One call of chunk_text, window by window *)

InitChunk ==
    /\ full_text \in Texts
    /\ chunk_size \in ChunkSizes
    /\ overlap \in UNION { Overlaps(size) : size \in ChunkSizes }
    /\ overlap < chunk_size
    /\ chunk_pc = "call"
    /\ start = 0
    /\ end = 0
    /\ chunks = << >>
    /\ call_args = [fn |-> "none"]
    /\ call_result = [kind |-> "pending"]
    /\ raw_response = << >>
    /\ keywords = EmptyList
    /\ stage = "idle"
    /\ raw_opportunities = None
    /\ validated = << >>
    /\ revalidated = << >>
    /\ opportunities = << >>
    /\ current_date = Instants[1]
    /\ pc = "idle"
    /\ valid_opportunities = << >>
    /\ expired_count = 0
    /\ scorer_calls = 0
    /\ scorer_input = << >>
    /\ scorer_reply = NoReply
    /\ outcome = Running
    /\ sessions = << >>
    /\ uuid_next = 0
    /\ clock = 1
    /\ request = << >>
    /\ reply = [kind |-> "none"]
    /\ calls = NoCalls

\* lines 109-113: a text no longer than chunk_size is returned whole
Enter ==
    /\ chunk_pc = "call"
    /\ IF full_text = << >> \/ Len(full_text) <= chunk_size
       THEN /\ chunks' = IF full_text # << >> THEN << full_text >> ELSE << >>
            /\ chunk_pc' = "returned"
       ELSE /\ chunks' = << >>
            /\ chunk_pc' = "loop"
    /\ start' = 0
    /\ UNCHANGED <<full_text, chunk_size, overlap, end>>
    /\ UNCHANGED rankVars
    /\ UNCHANGED endpointVars
    /\ UNCHANGED extractVars
    /\ UNCHANGED callVars

\* lines 115-138: one turn of the loop.  A call that makes no progress is
\* followed for len(text) + 1 chunks.
Window ==
    /\ chunk_pc = "loop"
    /\ start < Len(full_text)
    /\ Len(chunks) <= Len(full_text)
    /\ LET window_end == WindowEnd(full_text, start, chunk_size)
           chunk == Strip(StrSlice(full_text, start, window_end))
       IN  /\ end' = window_end
           /\ chunks' = IF chunk # << >> THEN Append(chunks, chunk) ELSE chunks
           /\ start' = NextStart(window_end, overlap)
    /\ UNCHANGED <<full_text, chunk_size, overlap, chunk_pc>>
    /\ UNCHANGED rankVars
    /\ UNCHANGED endpointVars
    /\ UNCHANGED extractVars
    /\ UNCHANGED callVars

\* lines 115 and 140: the loop ends and the chunks are returned
Return ==
    /\ chunk_pc = "loop"
    /\ start >= Len(full_text)
    /\ chunk_pc' = "returned"
    /\ UNCHANGED <<full_text, chunk_size, overlap, start, end, chunks>>
    /\ UNCHANGED rankVars
    /\ UNCHANGED endpointVars
    /\ UNCHANGED extractVars
    /\ UNCHANGED callVars

NextChunk == Enter \/ Window \/ Return

SpecChunk == InitChunk /\ [][NextChunk]_vars

----------------------------------------------------------------------------
(* Python floats.  A float is the binary fraction m * 2^e with a significand *)
(* of Precision bits (53 in CPython), m odd or zero; every operation gives   *)
(* the float nearest to the exact result, ties to the even significand.      *)
(* The exponent is not bounded: no overflow and no underflow.                *)

Precision == 8

RECURSIVE Pow2(_)
Pow2(n) == IF n = 0 THEN 1 ELSE 2 * Pow2(n - 1)

Abs(n) == IF n < 0 THEN -n ELSE n

\* the number of bits of n > 0
RECURSIVE BitLen(_)
BitLen(n) == IF n = 0 THEN 0 ELSE 1 + BitLen(n \div 2)

\* the float whose value is n * 2^e, for a value that is representable
RECURSIVE Canonical(_, _)
Canonical(n, e) ==
    IF n = 0 THEN [m |-> 0, e |-> 0]
    ELSE IF n % 2 = 0 THEN Canonical(n \div 2, e + 1)
    ELSE [m |-> n, e |-> e]

\* the float nearest to n * 2^e
RoundToFloat(n, e) ==
    LET drop == BitLen(Abs(n)) - Precision
        q == Abs(n) \div Pow2(drop)
        r == Abs(n) % Pow2(drop)
        half == Pow2(drop - 1)
        up == r > half \/ (r = half /\ q % 2 = 1)
        kept == IF up THEN q + 1 ELSE q
    IN  IF drop <= 0 THEN Canonical(n, e)
        ELSE Canonical(IF n < 0 THEN -kept ELSE kept, e + drop)

\* float(n) for an int n
Float(n) == RoundToFloat(n, 0)

\* a * b
FMul(a, b) == RoundToFloat(a.m * b.m, a.e + b.e)

\* a + b
FAdd(a, b) ==
    LET low == IF a.e < b.e THEN a.e ELSE b.e
    IN  IF a.m = 0 THEN b
        ELSE IF b.m = 0 THEN a
        ELSE IF a.e - b.e > 2 * Precision THEN a
        ELSE IF b.e - a.e > 2 * Precision THEN b
        ELSE RoundToFloat(a.m * Pow2(a.e - low) + b.m * Pow2(b.e - low), low)

\* a / b for b # 0: the quotient is taken with 2 * Precision + 1 more bits
\* and one bit more that tells whether anything is left
FDiv(a, b) ==
    LET scaled == Abs(a.m) * Pow2(2 * Precision + 1)
        q == scaled \div Abs(b.m)
        sticky == IF scaled % Abs(b.m) = 0 THEN 0 ELSE 1
        n == 2 * q + sticky
    IN  RoundToFloat(IF (a.m < 0) = (b.m < 0) THEN n ELSE -n,
                     a.e - b.e - 2 * Precision - 2)

\* the largest r with r * r <= n, between lo and hi
RECURSIVE ISqrt(_, _, _)
ISqrt(n, lo, hi) ==
    IF lo >= hi THEN lo
    ELSE LET mid == (lo + hi + 1) \div 2
         IN  IF mid * mid <= n THEN ISqrt(n, mid, hi) ELSE ISqrt(n, lo, mid - 1)

\* a ** 0.5 for a >= 0: the root of the significand moved left by an even
\* number of bits, with one bit more that tells whether anything is left
FSqrt(a) ==
    LET shift == 2 * Precision + 2 + (IF a.e % 2 = 0 THEN 0 ELSE 1)
        n == a.m * Pow2(shift)
        r == ISqrt(n, 0, Pow2((3 * Precision + 4) \div 2))
        sticky == IF r * r = n THEN 0 ELSE 1
    IN  IF a.m = 0 THEN a
        ELSE RoundToFloat(2 * r + sticky, (a.e - shift) \div 2 - 1)

\* a <= b
FLessEq(a, b) ==
    LET low == IF a.e < b.e THEN a.e ELSE b.e
    IN  IF a.m <= 0 /\ b.m >= 0 THEN TRUE
        ELSE IF a.m > 0 /\ b.m <= 0 THEN FALSE
        ELSE IF a.m >= 0 /\ b.m < 0 THEN FALSE
        ELSE IF a.e - b.e > 2 * Precision THEN a.m < 0
        ELSE IF b.e - a.e > 2 * Precision THEN b.m > 0
        ELSE a.m * Pow2(a.e - low) <= b.m * Pow2(b.e - low)

----------------------------------------------------------------------------
(* EmbeddingService.compute_similarity *)

\* sum(a * b for a, b in zip(x, y)) from the i-th pair on, added to acc
RECURSIVE SumProducts(_, _, _, _)
SumProducts(x, y, i, acc) ==
    IF i > Len(x) \/ i > Len(y) THEN acc
    ELSE SumProducts(x, y, i + 1, FAdd(acc, FMul(x[i], y[i])))

\* lines 154-177
ComputeSimilarity(embedding1, embedding2) ==
    LET dot_product == SumProducts(embedding1, embedding2, 1, Float(0))
        magnitude1 == FSqrt(SumProducts(embedding1, embedding1, 1, Float(0)))
        magnitude2 == FSqrt(SumProducts(embedding2, embedding2, 1, Float(0)))
        similarity == FDiv(dot_product, FMul(magnitude1, magnitude2))
    IN  IF embedding1 = << >> \/ embedding2 = << >> THEN Float(0)
        ELSE IF Len(embedding1) # Len(embedding2) THEN Float(0)
        ELSE IF magnitude1 = Float(0) \/ magnitude2 = Float(0) THEN Float(0)
        ELSE FDiv(FAdd(similarity, Float(1)), Float(2))

----------------------------------------------------------------------------
(* Calls of the functions that keep no state *)

MaxDim == 2

\* the embeddings: vectors of small whole numbers
Components == { Float(n) : n \in -3 .. 3 }
Embeddings == SeqsUpTo(Components, MaxDim)

SimilarityCalls ==
    { [fn |-> "compute_similarity", embedding1 |-> x, embedding2 |-> y] :
        x \in Embeddings, y \in Embeddings }

\* the strs and the None that _parse_date is called with
DateTexts ==
    DateStrings
    \cup { StrYmd(2024, 2, 29), StrYmd(2023, 2, 29), StrYmdT(2026, 11, 1, 90000),
           StrYmdSp(2026, 11, 2, 0), StrSlash(31, 12, 2026), StrSlash(12, 31, 2026),
           StrSlash(0, 1, 2026), StrLong(5, 5, 2027), StrLong(2, 30, 2027),
           StrAbbr(11, 1, 2026) }

ParseDateCalls == { [fn |-> "_parse_date", date_str |-> s] : s \in DateTexts }

\* opportunities whose dates, when they are there, are a dict of strs and nulls
DatedOpps ==
    { FullOpp("a", dl, st, None, FALSE) : dl \in DateStrings, st \in DateStrings }
    \cup { SparseOpp("a", dl) : dl \in DateStrings }
    \cup { JObj([id |-> JStr("a")]),
           JObj([id |-> JStr("a"), dates |-> EmptyDict]),
           JObj([id |-> JStr("a"), dates |-> JObj([start_date |-> StrYmd(2027, 11, 1)])]) }

DaysCalls ==
    { [fn |-> "_days_until_deadline", opportunity |-> opp, current_date |-> Instants[i]] :
        opp \in DatedOpps, i \in DOMAIN Instants }

\* a record of ranked_opportunities as rank_opportunities builds it for an
\* opportunity the scorer left out
RankedRecord(id, event_name) ==
    JObj(RankedOpp(JObj([ id |-> id, event_name |-> event_name,
                          dates |-> JObj([application_deadline |-> StrYmd(2099, 1, 1)]) ]),
                   EmptyDict, Instants[1]))

RankedLists ==
    { << >>,
      << RankedRecord(JStr("a"), JStr("Conf A")) >>,
      << RankedRecord(JStr("a"), JStr("Conf A")), RankedRecord(JStr("b"), JStr("Conf B")) >>,
      << RankedRecord(StrEmpty, None), RankedRecord(JStr("b"), JStr("Conf B")),
         RankedRecord(JStr("a"), JStr("Conf A")) >> }

\* what one chat-completion call of a batch does: it raises, or it answers
\* with no JSON, with a proposal, with a proposal that names another
\* opportunity, with a proposal inside of prose, or with JSON that is no object
BatchAnswerKinds ==
    { CallRaises,
      Content(<< TWord >>),
      Content(Object(<< Member("full_proposal", << TLit(StrProse(120)) >>) >>)),
      Content(Object(<< Member("opportunity_id", << TStr("z") >>),
                        Member("event_name", << TStr("Other") >>),
                        Member("id", << TStr("mine") >>),
                        Member("full_proposal", << TLit(StrProse(120)) >>) >>)),
      Content(<< TWord >> \o Object(<< Member("event_name", << TStr("Other") >>) >>)),
      Content(Array(<< >>)) }

MaxProposalsValues == 0 .. 4

\* the i-th of answers is what the i-th call of the batch does
BatchCalls ==
    UNION { { [fn |-> "generate_proposals_batch", ranked_opportunities |-> ranked,
               max_proposals |-> most, answers |-> answers, now |-> Instants[1]] :
                most \in MaxProposalsValues,
                answers \in [1 .. Len(ranked) -> BatchAnswerKinds] } :
            ranked \in RankedLists }

Pending == [kind |-> "pending"]
Gave(v) == [kind |-> "return", v |-> v]

InitCalls ==
    /\ call_args \in SimilarityCalls \cup ParseDateCalls \cup DaysCalls \cup BatchCalls
    /\ call_result = Pending
    /\ full_text = << >>
    /\ chunk_size = 1
    /\ overlap = 0
    /\ chunk_pc = "idle"
    /\ start = 0
    /\ end = 0
    /\ chunks = << >>
    /\ raw_response = << >>
    /\ keywords = EmptyList
    /\ stage = "idle"
    /\ raw_opportunities = None
    /\ validated = << >>
    /\ revalidated = << >>
    /\ opportunities = << >>
    /\ current_date = Instants[1]
    /\ pc = "idle"
    /\ valid_opportunities = << >>
    /\ expired_count = 0
    /\ scorer_calls = 0
    /\ scorer_input = << >>
    /\ scorer_reply = NoReply
    /\ outcome = Running
    /\ sessions = << >>
    /\ uuid_next = 0
    /\ clock = 1
    /\ request = << >>
    /\ reply = [kind |-> "none"]
    /\ calls = NoCalls

Idle ==
    /\ UNCHANGED call_args
    /\ UNCHANGED rankVars
    /\ UNCHANGED endpointVars
    /\ UNCHANGED extractVars
    /\ UNCHANGED chunkVars

\* compute_similarity(embedding1, embedding2)
CallComputeSimilarity ==
    /\ call_args.fn = "compute_similarity"
    /\ call_result = Pending
    /\ call_result' = Gave(ComputeSimilarity(call_args.embedding1, call_args.embedding2))
    /\ Idle

\* _parse_date(date_str)
CallParseDate ==
    /\ call_args.fn = "_parse_date"
    /\ call_result = Pending
    /\ call_result' = Gave(ParseDate(call_args.date_str))
    /\ Idle

\* _days_until_deadline(opportunity, current_date)
CallDaysUntilDeadline ==
    /\ call_args.fn = "_days_until_deadline"
    /\ call_result = Pending
    /\ call_result' = Gave(DaysUntilDeadline(call_args.opportunity, call_args.current_date))
    /\ Idle

\* generate_proposals_batch(profile_summary, ranked_opportunities, max_proposals)
CallGenerateProposalsBatch ==
    /\ call_args.fn = "generate_proposals_batch"
    /\ call_result = Pending
    /\ call_result' = Gave(GenerateProposalsBatch(call_args.ranked_opportunities,
                                                  call_args.max_proposals,
                                                  call_args.now, call_args.answers))
    /\ Idle

NextCalls ==
    \/ CallComputeSimilarity
    \/ CallParseDate
    \/ CallDaysUntilDeadline
    \/ CallGenerateProposalsBatch

SpecCalls == InitCalls /\ [][NextCalls]_vars

----------------------------------------------------------------------------
(* Properties of the ranking pass *)

\* the inputs that _is_expired judges non-expired, in input order
NonExpired == SelectSeq(opportunities, LAMBDA opp : ~IsExpired(opp, current_date))

InputIds(opps) == [i \in DOMAIN opps |-> Get(opps[i], "id", StrEmpty)]
IdsOf(records) == [i \in DOMAIN records |-> records[i].opportunity_id]

Occurrences(seq, x) == Cardinality({ i \in DOMAIN seq : seq[i] = x })
SamePopulation(s, t) ==
    /\ Len(s) = Len(t)
    /\ \A x \in Range(s) \cup Range(t) : Occurrences(s, x) = Occurrences(t, x)

Finished == pc = "done" /\ outcome.kind = "returned"
RankedList == outcome.result.ranked_opportunities

Unscored(rec) ==
    /\ rec.match_score = JNum(5)
    /\ rec.relevance_score = JNum(5)
    /\ rec.preference_score = JNum(5)

InUnitRange(v) == v.k = "num" /\ v.n >= 0 /\ v.n <= 10

WellFormedEntry(e) ==
    /\ e.k = "obj"
    /\ { "opportunity_id", "match_score", "relevance_score", "preference_score",
         "match_reasons", "matching_keywords" } \subseteq DOMAIN e.o
    /\ e.o["opportunity_id"].k = "str"
    /\ InUnitRange(e.o["match_score"])
    /\ InUnitRange(e.o["relevance_score"])
    /\ InUnitRange(e.o["preference_score"])
    /\ e.o["match_reasons"].k = "arr"
    /\ e.o["matching_keywords"].k = "arr"

\* the reply is the text of a JSON array of well-formed entries
WellFormedArray(response) ==
    /\ response.kind = "text"
    /\ JsonLoads(response.text).ok
    /\ JsonLoads(response.text).v.k = "arr"
    /\ \A e \in Range(JsonLoads(response.text).v.a) : WellFormedEntry(e)

ScoredIds(response) ==
    { e.o["opportunity_id"] : e \in Range(JsonLoads(response.text).v.a) }

CoversStrictSubset(response) ==
    (ScoredIds(response) \cap Range(InputIds(NonExpired))) # Range(InputIds(NonExpired))

\* C1: when the scorer answers with a JSON array of well-formed entries that
\* covers only a strict subset of the non-expired ids, rank_opportunities
\* returns exactly one record per non-expired input opportunity, and every
\* record whose id the answer leaves out has the three scores 0.5 and empty
\* match_reasons and matching_keywords.
C1_SubsetScoringKeepsEveryOpportunity ==
    (pc = "done" /\ WellFormedArray(scorer_reply) /\ CoversStrictSubset(scorer_reply)) =>
        /\ outcome.kind = "returned"
        /\ Len(RankedList) = Len(NonExpired)
        /\ SamePopulation(IdsOf(RankedList), InputIds(NonExpired))
        /\ \A i \in DOMAIN RankedList :
              RankedList[i].opportunity_id \notin ScoredIds(scorer_reply) =>
                  /\ Unscored(RankedList[i])
                  /\ RankedList[i].match_reasons = EmptyList
                  /\ RankedList[i].matching_keywords = EmptyList

\* a pass over three non-expired opportunities of which the scorer scored one
C1_Witness ==
    /\ pc = "done"
    /\ WellFormedArray(scorer_reply)
    /\ CoversStrictSubset(scorer_reply)
    /\ Len(NonExpired) = 3
    /\ outcome.kind = "returned"
    /\ Len(RankedList) = 3
    /\ \E i, j \in DOMAIN RankedList :
          /\ RankedList[i].opportunity_id \in ScoredIds(scorer_reply)
          /\ RankedList[i].match_score = JNum(9)
          /\ RankedList[j].opportunity_id \notin ScoredIds(scorer_reply)
          /\ Unscored(RankedList[j])

\* the reply parses as JSON but is malformed: a top-level object, an entry
\* without opportunity_id, or an entry whose match_score is no number
MalformedJson(response) ==
    /\ response.kind = "text"
    /\ JsonLoads(response.text).ok
    /\ LET v == JsonLoads(response.text).v
       IN  \/ v.k = "obj"
           \/ /\ v.k = "arr"
              /\ \E e \in Range(v.a) :
                    /\ e.k = "obj"
                    /\ \/ "opportunity_id" \notin DOMAIN e.o
                       \/ /\ "match_score" \in DOMAIN e.o
                          /\ e.o["match_score"].k # "num"

\* C2: when the scorer's answer parses as JSON but is malformed (an entry
\* without opportunity_id, a match_score that is null or no number, a
\* top-level object), rank_opportunities still returns one record per
\* non-expired opportunity and does not raise.
C2_MalformedScoringKeepsEveryOpportunity ==
    (pc = "done" /\ MalformedJson(scorer_reply)) =>
        /\ outcome.kind = "returned"
        /\ SamePopulation(IdsOf(RankedList), InputIds(NonExpired))

\* the scoring call failed outright: it raised, or returned no content, or
\* returned a text that is no JSON and whose span from the first [ to the
\* last ] is missing or no JSON either
FailedOutright(response) ==
    \/ response.kind = "raise"
    \/ response.kind = "none"
    \/ /\ response.kind = "text"
       /\ ~JsonLoads(response.text).ok
       /\ \/ Find(response.text, "[") = -1
          \/ RFind(response.text, "]") < Find(response.text, "[")
          \/ ~JsonLoads(SubSeq(response.text, Find(response.text, "[") + 1,
                               RFind(response.text, "]") + 1)).ok

\* C3: when the scoring call fails outright, rank_opportunities returns one
\* record per non-expired opportunity, in input order, each with the three
\* scores 0.5.
C3_FailedScoringGivesUnscoredList ==
    (pc = "done" /\ FailedOutright(scorer_reply)) =>
        /\ outcome.kind = "returned"
        /\ IdsOf(RankedList) = InputIds(NonExpired)
        /\ \A i \in DOMAIN RankedList : Unscored(RankedList[i])

\* the call raised during a pass over three distinct non-expired opportunities
C3_Witness ==
    /\ pc = "done"
    /\ scorer_reply = CallRaises
    /\ outcome.kind = "returned"
    /\ Len(RankedList) = 3
    /\ Cardinality(Range(IdsOf(RankedList))) = 3
    /\ IdsOf(RankedList) = InputIds(NonExpired)
    /\ \A i \in DOMAIN RankedList : Unscored(RankedList[i])

\* the ids of the non-expired inputs whose record carries match_score s
InputIdsScored(s) ==
    SelectSeq(InputIds(NonExpired), LAMBDA id :
        \E i \in DOMAIN RankedList :
            RankedList[i].opportunity_id = id /\ RankedList[i].match_score = s)

\* C4: the returned list is ordered by match_score non-increasing, and the
\* records of equal match_score keep the relative order of their
\* opportunities in the input; input and scores therefore fix the order.
C4_SortedDescendingAndStable ==
    Finished =>
        /\ \A i, j \in DOMAIN RankedList :
              i < j => ~KeyLess(RankedList[i].match_score, RankedList[j].match_score)
        /\ \A s \in { RankedList[i].match_score : i \in DOMAIN RankedList } :
              IdsOf(SelectSeq(RankedList, LAMBDA rec : rec.match_score = s))
                  = InputIdsScored(s)

\* the sort moved a higher score forward and kept two tied records in input order
C4_Witness ==
    /\ Finished
    /\ Len(RankedList) = 3
    /\ IdsOf(RankedList) # InputIds(NonExpired)
    /\ RankedList[1].match_score = JNum(9)
    /\ RankedList[2].match_score = RankedList[3].match_score
    /\ RankedList[2].opportunity_id # RankedList[3].opportunity_id

\* C5: the partition is complete before the scorer is invoked: the text sent
\* to the scorer holds only non-expired opportunities, the scorer is invoked
\* at most once per pass, and not at all when no input is non-expired.
C5_PartitionBeforeScoring ==
    /\ scorer_calls <= 1
    /\ scorer_calls = 1 =>
          /\ pc \in { "scoring", "done" }
          /\ valid_opportunities = NonExpired
          /\ expired_count = Len(opportunities) - Len(NonExpired)
          /\ scorer_input = OpportunitiesText(NonExpired)
          /\ \A i \in DOMAIN scorer_input :
                \E opp \in Range(NonExpired) : scorer_input[i] = PrepareOpportunityText(opp)
    /\ (pc = "done" /\ NonExpired = << >>) => scorer_calls = 0

\* the scorer was invoked once for a list that held an expired opportunity too
C5_Witness ==
    /\ pc = "scoring"
    /\ scorer_calls = 1
    /\ expired_count >= 1
    /\ Len(scorer_input) = 2
    /\ Len(opportunities) = 3

\* every opportunity was expired and the pass ended without a scoring call
C5_WitnessAllExpired ==
    /\ pc = "done"
    /\ Len(opportunities) = 2
    /\ NonExpired = << >>
    /\ scorer_calls = 0

\* the expiry rule as the specification words it
Present(date_str) == date_str # None /\ date_str # StrEmpty
Earlier(date_str, now) == ParseDate(date_str) # None /\ Before(ParseDate(date_str), now)
DeadlineOf(opp) == Get(Get(opp, "dates", EmptyDict), "application_deadline", None)
StartOf(opp) == Get(Get(opp, "dates", EmptyDict), "start_date", None)
ExpiredByRule(opp, now) ==
    \/ Present(DeadlineOf(opp)) /\ Earlier(DeadlineOf(opp), now)
    \/ ~Present(DeadlineOf(opp)) /\ Present(StartOf(opp)) /\ Earlier(StartOf(opp), now)

\* C6: the partition counts an opportunity as expired exactly when its
\* deadline is present and strictly earlier than now, or its deadline is
\* absent and its start date is present and strictly earlier than now; with
\* neither date it is not expired, and with a deadline that is not earlier
\* than now it is not expired whatever its start date.
C6_ExpiryRule ==
    pc # "start" =>
        /\ valid_opportunities =
              SelectSeq(opportunities, LAMBDA opp : ~ExpiredByRule(opp, current_date))
        /\ expired_count =
              Cardinality({ i \in DOMAIN opportunities :
                              ExpiredByRule(opportunities[i], current_date) })
        /\ \A opp \in Range(opportunities) :
              /\ (~Present(DeadlineOf(opp)) /\ ~Present(StartOf(opp)))
                    => opp \in Range(valid_opportunities)
              /\ (ParseDate(DeadlineOf(opp)) # None
                    /\ ~Before(ParseDate(DeadlineOf(opp)), current_date))
                    => opp \in Range(valid_opportunities)

\* a deadline at the very instant of the pass with a start date long past: not expired
C6_Witness ==
    /\ pc # "start"
    /\ Len(opportunities) = 1
    /\ DeadlineOf(opportunities[1]) = StrYmd(2026, 11, 1)
    /\ ParseDate(DeadlineOf(opportunities[1])) = current_date
    /\ Earlier(StartOf(opportunities[1]), current_date)
    /\ expired_count = 0
    /\ valid_opportunities = opportunities

\* no deadline and a start date earlier than now: expired
C6_WitnessStartDate ==
    /\ pc # "start"
    /\ Len(opportunities) = 1
    /\ ~Present(DeadlineOf(opportunities[1]))
    /\ Earlier(StartOf(opportunities[1]), current_date)
    /\ expired_count = 1
    /\ valid_opportunities = << >>

\* C7: every result has total_opportunities = number of inputs,
\* expired_opportunities = number of inputs judged expired,
\* valid_opportunities = total - expired = length of ranked_opportunities;
\* for the inputs a (deadline 2099-01-01) and b (deadline 2000-01-01) the
\* result holds the one record a, expired 1, valid 1, total 2.
C7_CountsAreConsistent ==
    Finished =>
        /\ outcome.result.total_opportunities = Len(opportunities)
        /\ outcome.result.expired_opportunities =
              Cardinality({ i \in DOMAIN opportunities :
                              IsExpired(opportunities[i], current_date) })
        /\ outcome.result.valid_opportunities =
              outcome.result.total_opportunities - outcome.result.expired_opportunities
        /\ outcome.result.valid_opportunities = Len(RankedList)
        /\ opportunities = << ExampleA, ExampleB >> =>
              /\ IdsOf(RankedList) = << JStr("a") >>
              /\ outcome.result.expired_opportunities = 1
              /\ outcome.result.valid_opportunities = 1
              /\ outcome.result.total_opportunities = 2

\* the pass over a and b returned after the scorer scored a
C7_Witness ==
    /\ Finished
    /\ opportunities = << ExampleA, ExampleB >>
    /\ scorer_reply.kind = "text"
    /\ Len(RankedList) = 1
    /\ RankedList[1].match_score = JNum(3)
    /\ outcome.result.expired_opportunities = 1

\* C8: every returned record has match_score, relevance_score and
\* preference_score within 0.0 .. 1.0, whatever the scorer supplied.
C8_ScoresWithinUnitRange ==
    Finished =>
        \A i \in DOMAIN RankedList :
            /\ InUnitRange(RankedList[i].match_score)
            /\ InUnitRange(RankedList[i].relevance_score)
            /\ InUnitRange(RankedList[i].preference_score)

----------------------------------------------------------------------------
(* Properties of the endpoint *)

SessionIdOf(raw_data) == Get(RequestData(raw_data), "session_id", None)

\* the text run returned is a JSON object {"success": false, "error": <str>}
IsErrorReply(r) ==
    /\ r.kind = "returned"
    /\ JsonLoads(r.text).ok
    /\ JsonLoads(r.text).v.k = "obj"
    /\ Get(JsonLoads(r.text).v, "success", None) = JBool(FALSE)
    /\ Get(JsonLoads(r.text).v, "error", None).k = "str"

\* a step that serves a request (every step but the passing of time) whose
\* action is rank, generate_proposal or generate_all_proposals and whose
\* session_id is missing or no key of the store
ServesUnknownSession ==
    /\ clock' = clock
    /\ RouteOf(request') \in { "rank", "generate_proposal", "generate_all_proposals" }
    /\ SessionIdOf(request') \notin DOMAIN sessions

RefusedUntouched ==
    /\ IsErrorReply(reply')
    /\ sessions' = sessions
    /\ calls'.scorer = 0
    /\ calls'.proposal = 0

\* C9: a rank, generate_proposal or generate_all_proposals request whose
\* session_id is missing or is no key of the session store is answered with
\* {success: false, error: <message>}, leaves the store as it was and issues
\* no scoring and no proposal-generation call.
C9_UnknownSessionIsRefused == [][ServesUnknownSession => RefusedUntouched]_vars

\* a rank request for a session that does not exist, refused while another exists
C9_Witness ==
    /\ RouteOf(request) = "rank"
    /\ SessionIdOf(request) = JStr("nope")
    /\ DOMAIN sessions = { Uuid(1) }
    /\ IsErrorReply(reply)
    /\ calls = NoCalls

\* a batch request without session_id, refused
C9_WitnessMissing ==
    /\ RouteOf(request) = "generate_all_proposals"
    /\ "session_id" \notin DOMAIN RequestData(request).o
    /\ DOMAIN sessions = { Uuid(1) }
    /\ IsErrorReply(reply)
    /\ calls = NoCalls

\* what every reply of run looks like
AnswerIsWellFormed ==
    /\ reply.kind # "raised"
    /\ reply.kind = "returned" =>
          /\ JsonLoads(reply.text).ok
          /\ JsonLoads(reply.text).v.k = "obj"
          /\ Get(JsonLoads(reply.text).v, "success", None).k = "bool"
          /\ Get(JsonLoads(reply.text).v, "success", None) = JBool(FALSE) => IsErrorReply(reply)
          /\ RouteOf(request) \in { "unknown", "raise" } => IsErrorReply(reply)
          /\ RouteOf(request) = "health" =>
                Get(JsonLoads(reply.text).v, "success", None) = JBool(TRUE)

HealthTouchesNothing ==
    (clock' = clock /\ RouteOf(request') = "health") =>
        /\ sessions' = sessions
        /\ uuid_next' = uuid_next
        /\ calls' = NoCalls

\* C10: run never raises: after every request it has returned the JSON text
\* of an object with a boolean success, carrying an error string whenever
\* success is false; an action outside upload, rank, generate_proposal,
\* generate_all_proposals, health (and a raw_data that is no JSON object)
\* gives success false; health gives success true and leaves the session
\* state as it was.
C10_RunAlwaysAnswers == [](AnswerIsWellFormed) /\ [][HealthTouchesNothing]_vars

\* raw_data that is no JSON at all, answered with an error while a session exists
C10_Witness ==
    /\ request = << TWord >>
    /\ DOMAIN sessions # {}
    /\ IsErrorReply(reply)

\* a rank request whose session_id cannot be a dictionary key, answered with an error
C10_WitnessUnhashable ==
    /\ RouteOf(request) = "rank"
    /\ SessionIdOf(request) = JArr(<< JStr("x") >>)
    /\ DOMAIN sessions # {}
    /\ IsErrorReply(reply)

\* the opportunities an upload request carries, as a JSON text or as an
\* object, and the empty list when it carries none
RequestedList(raw_data) ==
    LET opportunities_json == Get(RequestData(raw_data), "opportunities_json", EmptyDict)
    IN  Get(IF opportunities_json.k = "str" THEN JsonLoads(opportunities_json.text).v
            ELSE opportunities_json,
            "opportunities", EmptyList)

\* the last request was an upload of a list of records whose profile was
\* parsed, so that nothing but generate_embedding failed in it
UploadReachedIndexing ==
    /\ RouteOf(request) = "upload"
    /\ Uuid(uuid_next) \in DOMAIN sessions
    /\ \A i \in DOMAIN sessions[Uuid(uuid_next)].o["opportunities"].a :
          sessions[Uuid(uuid_next)].o["opportunities"].a[i].k = "obj"

\* the texts the upload asked embeddings for: the profile chunk, then one
\* text per opportunity
EmbeddedTexts ==
    LET session == sessions[Uuid(uuid_next)]
        raw_text == session.o["profile"].o["raw_text"]
        list == session.o["opportunities"].a
    IN  (IF raw_text = StrEmpty THEN << >> ELSE << raw_text >>)
        \o [i \in DOMAIN list |-> OppText(list[i])]

\* the elements of items whose embedding is not missing, in order
RECURSIVE WithEmbedding(_, _)
WithEmbedding(items, embeddings) ==
    IF items = << >> THEN << >>
    ELSE (IF Head(embeddings) = None THEN << >> ELSE << Head(items) >>)
         \o WithEmbedding(Tail(items), Tail(embeddings))

\* C22: in an upload, generate_embedding gives no value (it never raises) for
\* an empty text or a provider error; the documents sent to the index are
\* exactly the chunks and opportunities whose embedding is there, in order;
\* the upload returns success and its session holds the full opportunity list.
C22_MissingEmbeddingsAreSkipped ==
    UploadReachedIndexing =>
        /\ Len(calls.embeddings) = Len(EmbeddedTexts)
        /\ \A i \in DOMAIN calls.embeddings :
              /\ calls.embeddings[i] \in { None, Vector.embedding }
              /\ EmbeddedTexts[i] = StrBlank => calls.embeddings[i] = None
        /\ [i \in DOMAIN calls.documents |-> calls.documents[i].o["content"]]
              = WithEmbedding(EmbeddedTexts, calls.embeddings)
        /\ calls.index = (IF calls.documents = << >> THEN 0 ELSE 1)
        /\ reply.kind = "returned"
        /\ Get(JsonLoads(reply.text).v, "success", None) = JBool(TRUE)
        /\ Get(JsonLoads(reply.text).v, "session_id", None) = Uuid(uuid_next)
        /\ sessions[Uuid(uuid_next)].o["opportunities"] = RequestedList(request)

\* an upload of three opportunities in which the provider failed for the
\* second text only: the other three texts are indexed
C22_Witness ==
    /\ UploadReachedIndexing
    /\ Len(calls.embeddings) = 4
    /\ calls.embeddings[2] = None
    /\ Len(calls.documents) = 3
    /\ Get(JsonLoads(reply.text).v, "success", None) = JBool(TRUE)

\* an upload whose profile chunk is blank and so has no embedding, while the
\* opportunities are indexed
C22_WitnessBlank ==
    /\ UploadReachedIndexing
    /\ EmbeddedTexts[1] = StrBlank
    /\ calls.embeddings[1] = None
    /\ Len(calls.documents) = Len(calls.embeddings) - 1
    /\ Len(calls.documents) > 0

\* an upload in which every embedding failed: nothing is sent to the index
\* and the upload succeeds
C22_WitnessNone ==
    /\ UploadReachedIndexing
    /\ Len(calls.embeddings) = 4
    /\ calls.documents = << >>
    /\ calls.index = 0
    /\ Get(JsonLoads(reply.text).v, "success", None) = JBool(TRUE)


\* the reply is the JSON text of an object whose success is true
IsSuccessReply(r) ==
    /\ r.kind = "returned"
    /\ JsonLoads(r.text).ok
    /\ JsonLoads(r.text).v.k = "obj"
    /\ Get(JsonLoads(r.text).v, "success", None) = JBool(TRUE)

\* what a session holds besides its rankings
Uploaded(session) ==
    << session.o["profile"], session.o["opportunities"], session.o["created_at"] >>

\* the store after the step differs from the one before in nothing but the
\* rankings of the session
RankingsSuperseded(session_id) ==
    /\ session_id \in DOMAIN sessions
    /\ DOMAIN sessions' = DOMAIN sessions
    /\ \A other \in DOMAIN sessions \ { session_id } : sessions'[other] = sessions[other]
    /\ Uploaded(sessions'[session_id]) = Uploaded(sessions[session_id])
    /\ DOMAIN sessions'[session_id].o = DOMAIN sessions[session_id].o \cup { "rankings" }

\* the object of a successful rank reply that carries the rankings
RankAnswer(session_id, rankings) ==
    [ok |-> TRUE,
     v |-> JObj([ success |-> JBool(TRUE),
                  session_id |-> session_id,
                  profile_summary |-> sessions[session_id].o["profile"].o["profile_summary"],
                  total_opportunities |-> Get(rankings, "total_opportunities", None),
                  valid_opportunities |-> Get(rankings, "valid_opportunities", None),
                  expired_opportunities |-> Get(rankings, "expired_opportunities", None),
                  ranked_opportunities |-> Get(rankings, "ranked_opportunities", None) ])]

\* what a step that serves a rank request does to the store: nothing when
\* the reply is an error, and when it is not, the reply is a success that
\* carries the very rankings now stored
RankSupersedes ==
    \/ sessions' = sessions /\ IsErrorReply(reply')
    \/ /\ reply'.kind = "returned"
       /\ RankingsSuperseded(SessionIdOf(request'))
       /\ JsonLoads(reply'.text)
             = RankAnswer(SessionIdOf(request'),
                          sessions'[SessionIdOf(request')].o["rankings"])

\* what a step that serves a request routed to action may do to the store
StoreFrame(action) ==
    CASE action = "rank" -> RankSupersedes
      [] action \in { "generate_proposal", "generate_all_proposals" } -> sessions' = sessions
      [] OTHER -> TRUE

\* C25: a successful rank replaces the rankings of its session with the
\* result it has just built and changes nothing else in the store; a failed
\* rank leaves the store, and with it the rankings stored before, as it was;
\* generate_proposal and generate_all_proposals leave the store as it was.
\* (Every step but the passing of time serves the request it leaves behind.)
C25_RankingsAreSupersededNotMutated ==
    [][clock' = clock => StoreFrame(RouteOf(request'))]_vars

\* a rank that failed on a session that keeps the rankings of an earlier rank
C25_Witness ==
    /\ RouteOf(request) = "rank"
    /\ SessionIdOf(request) = Uuid(1)
    /\ IsErrorReply(reply)
    /\ Uuid(1) \in DOMAIN sessions
    /\ "rankings" \in DOMAIN sessions[Uuid(1)].o
    /\ sessions[Uuid(1)].o["rankings"].o["ranked_opportunities"] # EmptyList

\* a rank that succeeded: the session holds the ranked list the reply carries
C25_WitnessSuccess ==
    /\ RouteOf(request) = "rank"
    /\ IsSuccessReply(reply)
    /\ SessionIdOf(request) = Uuid(1)
    /\ "rankings" \in DOMAIN sessions[Uuid(1)].o
    /\ sessions[Uuid(1)].o["rankings"].o["ranked_opportunities"] # EmptyList

\* a proposal was generated from rankings that are still in the store
C25_WitnessProposal ==
    /\ RouteOf(request) = "generate_proposal"
    /\ IsSuccessReply(reply)
    /\ sessions[Uuid(1)].o["rankings"].o["ranked_opportunities"] # EmptyList


SubRecords == { "dates", "location", "compensation", "application" }

\* the record has a sub-record that is null
HasNullSubRecord(opp) ==
    opp.k = "obj" /\ \E key \in SubRecords : key \in DOMAIN opp.o /\ opp.o[key] = None

\* the record with the zero-value structure in the place of every null sub-record
ZeroFilled(opp) ==
    JObj([key \in DOMAIN opp.o |->
             IF key \in SubRecords /\ opp.o[key] = None THEN EmptyDict ELSE opp.o[key]])

\* the last request was a rank on a session whose opportunities are records,
\* one of them with a null sub-record
RankedOverNullSubRecord ==
    /\ RouteOf(request) = "rank"
    /\ SessionIdOf(request) \in DOMAIN sessions
    /\ LET list == sessions[SessionIdOf(request)].o["opportunities"].a
       IN  /\ \A i \in DOMAIN list : list[i].k = "obj"
           /\ \E i \in DOMAIN list : HasNullSubRecord(list[i])

\* the ids of the ranked records the session holds
RankedIds(session) ==
    LET ranked == Get(Get(session, "rankings", EmptyDict), "ranked_opportunities", EmptyList).a
    IN  { ranked[i].o["opportunity_id"] : i \in DOMAIN ranked }

\* C26: a rank over an uploaded list of records one of which has a null
\* dates, location, compensation or application succeeds, and ranks every
\* record of the list that has not expired, the null sub-record read as {}.
C26_NullSubRecordsDoNotFailRanking ==
    RankedOverNullSubRecord =>
        /\ IsSuccessReply(reply)
        /\ LET session == sessions[SessionIdOf(request)]
               list == session.o["opportunities"].a
           IN  \A i \in DOMAIN list :
                   ~IsExpired(ZeroFilled(list[i]), Instants[clock])
                       => Get(list[i], "id", StrEmpty) \in RankedIds(session)


AskedId(raw_data) == Get(RequestData(raw_data), "opportunity_id", None)

\* the last request named a session of the store
OnStoredSession == SessionIdOf(request) \in DOMAIN sessions

\* C27: on a session of the store, generate_proposal succeeds only for an
\* opportunity_id among the ranked_opportunities the session holds, which are
\* those of its most recent successful rank; for any other id, and so before
\* any successful rank and for an id that expired or was never uploaded, it
\* answers success false and makes no model call; generate_all_proposals
\* answers success false, without a model call, when the session holds no
\* ranked opportunity.
C27_ProposalsOnlyAfterRanking ==
    /\ (RouteOf(request) = "generate_proposal" /\ OnStoredSession) =>
          IF AskedId(request) \in RankedIds(sessions[SessionIdOf(request)])
          THEN IsSuccessReply(reply)
          ELSE IsErrorReply(reply) /\ calls.proposal = 0
    /\ (/\ RouteOf(request) = "generate_all_proposals"
        /\ OnStoredSession
        /\ RankedIds(sessions[SessionIdOf(request)]) = {}) =>
          IsErrorReply(reply) /\ calls.proposal = 0

\* a proposal asked for the expired "b" after a rank that ranked "a": refused
C27_Witness ==
    /\ RouteOf(request) = "generate_proposal"
    /\ OnStoredSession
    /\ AskedId(request) = JStr("b")
    /\ JStr("a") \in RankedIds(sessions[SessionIdOf(request)])
    /\ \E i \in DOMAIN sessions[SessionIdOf(request)].o["opportunities"].a :
          Get(sessions[SessionIdOf(request)].o["opportunities"].a[i], "id", None) = JStr("b")
    /\ IsErrorReply(reply)
    /\ calls.proposal = 0

\* a proposal asked for the uploaded "a" before any rank: refused
C27_WitnessBeforeRank ==
    /\ RouteOf(request) = "generate_proposal"
    /\ OnStoredSession
    /\ AskedId(request) = JStr("a")
    /\ "rankings" \notin DOMAIN sessions[SessionIdOf(request)].o
    /\ sessions[SessionIdOf(request)].o["opportunities"] # EmptyList
    /\ IsErrorReply(reply)

\* a proposal asked for the ranked "a": generated with one model call
C27_WitnessRanked ==
    /\ RouteOf(request) = "generate_proposal"
    /\ OnStoredSession
    /\ AskedId(request) = JStr("a")
    /\ IsSuccessReply(reply)
    /\ calls.proposal = 1

\* a batch asked before any rank: refused
C27_WitnessBatch ==
    /\ RouteOf(request) = "generate_all_proposals"
    /\ OnStoredSession
    /\ "rankings" \notin DOMAIN sessions[SessionIdOf(request)].o
    /\ IsErrorReply(reply)


\* the step adds one session under an identifier the store did not have and
\* leaves the other sessions as they were
OneSessionAdded ==
    /\ \E session_id \in DOMAIN sessions' \ DOMAIN sessions :
          DOMAIN sessions' = DOMAIN sessions \cup { session_id }
    /\ \A session_id \in DOMAIN sessions : sessions'[session_id] = sessions[session_id]

UploadIsAllOrNothing ==
    (clock' = clock /\ RouteOf(request') = "upload") =>
        IF IsErrorReply(reply') THEN sessions' = sessions ELSE OneSessionAdded

\* C29: an upload that answers success adds exactly one session under a
\* fresh identifier and leaves every other session as it was; an upload that
\* answers success false leaves the session store as it was.
C29_UploadIsAllOrNothing == [][UploadIsAllOrNothing]_vars


----------------------------------------------------------------------------
(* Properties of the extraction *)

\* the answer is prose P, then something, then prose Q, for a wrapping <<P, Q>>
HasWrapping(response, wrapping) ==
    /\ Len(response) >= Len(wrapping[1]) + Len(wrapping[2])
    /\ SubSeq(response, 1, Len(wrapping[1])) = wrapping[1]
    /\ SubSeq(response, Len(response) - Len(wrapping[2]) + 1, Len(response)) = wrapping[2]
Unwrapped(response, wrapping) ==
    SubSeq(response, Len(wrapping[1]) + 1, Len(response) - Len(wrapping[2]))

\* the answer is P + A + Q for a valid JSON array A, and is not valid JSON itself
EmbedsArray(response, wrapping) ==
    /\ HasWrapping(response, wrapping)
    /\ JsonLoads(Unwrapped(response, wrapping)).ok
    /\ JsonLoads(Unwrapped(response, wrapping)).v.k = "arr"
    /\ ~JsonLoads(response).ok

\* C11: for every valid JSON array A and prose P, Q such that P + A + Q is not
\* valid JSON, _parse_opportunities(P + A + Q) returns exactly A, also when the
\* prose holds '[' or ']' and when A is nested in an enclosing object.
C11_ArrayInProseIsRecovered ==
    stage # "start" =>
        \A wrapping \in Wrappings :
            EmbedsArray(raw_response, wrapping) =>
                raw_opportunities = JsonLoads(Unwrapped(raw_response, wrapping)).v

\* the text from the first open to the last close is there and is valid JSON
SubstringLoads(response, open, close) ==
    /\ Find(response, open) # -1
    /\ RFind(response, close) + 1 > Find(response, open)
    /\ JsonLoads(Slice(response, Find(response, open), RFind(response, close) + 1)).ok

NothingLoads(response) ==
    /\ ~JsonLoads(response).ok
    /\ ~SubstringLoads(response, "[", "]")
    /\ ~SubstringLoads(response, "{", "}")

\* C12: _parse_opportunities never raises; when the whole answer, its
\* first-'['-to-last-']' substring and its first-'{'-to-last-'}' substring all
\* fail to parse, it returns the empty list.
C12_ParseNeverRaises ==
    stage # "start" =>
        /\ raw_opportunities.k # "raise"
        /\ NothingLoads(raw_response) => raw_opportunities = EmptyList

\* a truncated answer: it opens an array and a record and closes neither
C12_Witness ==
    /\ stage # "start"
    /\ NothingLoads(raw_response)
    /\ Find(raw_response, "[") # -1
    /\ Find(raw_response, "{") # -1
    /\ raw_opportunities = EmptyList

\* an answer with no bracket at all
C12_WitnessNoBrackets ==
    /\ stage # "start"
    /\ raw_response # << >>
    /\ \A c \in { "[", "]", "{", "}" } : Find(raw_response, c) = -1
    /\ ~JsonLoads(raw_response).ok
    /\ raw_opportunities = EmptyList

\* C13: whatever the answer, _parse_opportunities returns a list whose
\* elements are record dictionaries.
C13_ParseReturnsListOfRecords ==
    stage # "start" =>
        /\ raw_opportunities.k = "arr"
        /\ \A i \in DOMAIN raw_opportunities.a : raw_opportunities.a[i].k = "obj"

\* _validate_and_fix_opportunities has returned
Normalized == stage \in { "validated", "again" }

\* the zero-value structures of the four sub-records
ZeroDateInfo ==
    Model("DateInfo", [ start_date |-> None, end_date |-> None, application_deadline |-> None ])
ZeroLocation ==
    Model("Location", [ venue |-> None, city |-> None, state |-> None, country |-> None,
                        is_virtual |-> JBool(FALSE), has_virtual_option |-> JBool(FALSE) ])
ZeroCompensation ==
    Model("Compensation", [ is_paid |-> JBool(FALSE), compensation_type |-> JStr("unknown"),
                            amount |-> None, currency |-> JStr("USD"),
                            includes_travel |-> JBool(FALSE),
                            includes_accommodation |-> JBool(FALSE), details |-> None ])
ZeroApplicationInfo ==
    Model("ApplicationInfo", [ url |-> None, contact_email |-> None, requirements |-> EmptyList ])
ZeroValue ==
    [ dates |-> ZeroDateInfo, location |-> ZeroLocation,
      compensation |-> ZeroCompensation, application |-> ZeroApplicationInfo ]

IsBool(v) == v.k = "bool"
IsList(v) == v.k = "arr"

\* no sub-record, list or boolean of the Opportunity is null
NothingNull(opportunity) ==
    /\ \A key \in DOMAIN ZeroValue : opportunity.o[key].k = "model"
    /\ IsList(opportunity.o.target_audience)
    /\ IsList(opportunity.o.keywords_matched)
    /\ IsList(opportunity.o.application.o.requirements)
    /\ IsBool(opportunity.o.location.o.is_virtual)
    /\ IsBool(opportunity.o.location.o.has_virtual_option)
    /\ IsBool(opportunity.o.compensation.o.is_paid)
    /\ IsBool(opportunity.o.compensation.o.includes_travel)
    /\ IsBool(opportunity.o.compensation.o.includes_accommodation)

\* the field of a sub-record of the raw record is null or missing
NullIn(raw, key, field) ==
    /\ Get(raw, key, None).k = "obj"
    /\ Get(Get(raw, key, None), field, None) = None

\* what was null or missing in the raw record is the zero value in the Opportunity
NullsReplaced(raw, opportunity) ==
    /\ \A key \in DOMAIN ZeroValue :
          Get(raw, key, None) = None => opportunity.o[key] = ZeroValue[key]
    /\ Get(raw, "target_audience", None) = None => opportunity.o.target_audience = EmptyList
    /\ NullIn(raw, "application", "requirements") =>
          opportunity.o.application.o.requirements = EmptyList
    /\ \A field \in { "is_virtual", "has_virtual_option" } :
          NullIn(raw, "location", field) => opportunity.o.location.o[field] = JBool(FALSE)
    /\ \A field \in { "is_paid", "includes_travel", "includes_accommodation" } :
          NullIn(raw, "compensation", field) => opportunity.o.compensation.o[field] = JBool(FALSE)

\* the batch is one record and it was accepted
OneAccepted ==
    /\ Normalized
    /\ raw_opportunities.k = "arr"
    /\ Len(raw_opportunities.a) = 1
    /\ Len(validated) = 1

\* C14: every Opportunity that normalization accepted has non-null dates,
\* location, compensation and application (the zero-value structure where the
\* raw record had null or nothing), non-null lists (the empty list for null)
\* and non-null booleans in Location and Compensation (false for null).
C14_NormalizedHasNoNulls ==
    /\ Normalized => \A i \in DOMAIN validated : NothingNull(validated[i])
    /\ OneAccepted => NullsReplaced(raw_opportunities.a[1], validated[1])

\* a record whose four sub-records and lists are null
C14_Witness ==
    /\ OneAccepted
    /\ raw_opportunities.a[1] = RecordNulls
    /\ validated[1].o.location = ZeroLocation
    /\ validated[1].o.target_audience = EmptyList

\* a record whose sub-records hold null booleans and a null list
C14_WitnessNested ==
    /\ OneAccepted
    /\ NullIn(raw_opportunities.a[1], "compensation", "includes_travel")
    /\ NullIn(raw_opportunities.a[1], "application", "requirements")
    /\ validated[1].o.compensation.o.includes_travel = JBool(FALSE)

\* the record has a name and passes the schema once it has an id and keywords
Acceptable(raw) ==
    /\ raw.k = "obj"
    /\ Truthy(Get(raw, "event_name", None))
    /\ LET with_id == IF Truthy(Get(raw, "id", None)) THEN raw ELSE Put(raw, "id", OppId(0))
           with_keywords == IF Truthy(Get(with_id, "keywords_matched", None)) THEN with_id
                            ELSE Put(with_id, "keywords_matched", EmptyList)
       IN  NewOpportunity(with_keywords).ok

NamesOf(list) == [i \in DOMAIN list |-> list[i].o.event_name]

\* C15: a record without a name (missing, null or the empty str) or that
\* fails the schema is left out, every other record of the batch is returned,
\* in the order of the input, and the function does not raise because of a
\* bad record.
C15_BadRecordsAreIsolated ==
    (stage \notin { "start", "parsed" } /\ raw_opportunities.k = "arr") =>
        /\ stage # "raised"
        /\ NamesOf(validated) = NamesOf(SelectSeq(raw_opportunities.a, Acceptable))

\* a bad record first, a good one after it
C15_Witness ==
    /\ Normalized
    /\ raw_opportunities.k = "arr"
    /\ Len(raw_opportunities.a) = 2
    /\ ~Acceptable(raw_opportunities.a[1])
    /\ raw_opportunities.a[1].k = "obj"
    /\ Acceptable(raw_opportunities.a[2])
    /\ NamesOf(validated) = << raw_opportunities.a[2].o.event_name >>

\* two good records around nothing: both returned in order
C15_WitnessOrder ==
    /\ Normalized
    /\ raw_opportunities.k = "arr"
    /\ Len(raw_opportunities.a) = 2
    /\ Len(validated) = 2
    /\ validated[1].o.event_name # validated[2].o.event_name

\* confidence_score is absent, null, below 0.0 or above 1.0
ConfidenceToDefault(raw) ==
    LET score == Get(raw, "confidence_score", None)
    IN  \/ score = None
        \/ score.k = "num" /\ (score.n < 0 \/ score.n > 10)

\* C16: a raw record whose confidence_score is absent, null, below 0.0 or
\* above 1.0 is kept and has confidence_score 0.5; every normalized
\* Opportunity has its confidence_score within 0.0 .. 1.0.
C16_ConfidenceDefaultsToHalf ==
    Normalized =>
        /\ \A i \in DOMAIN validated :
              /\ validated[i].o.confidence_score.k = "num"
              /\ validated[i].o.confidence_score.n \in 0 .. 10
        /\ raw_opportunities.k = "arr" =>
              \A j \in DOMAIN raw_opportunities.a :
                  LET raw == raw_opportunities.a[j]
                  IN  (/\ raw.k = "obj"
                       /\ ConfidenceToDefault(raw)
                       /\ Acceptable(Put(raw, "confidence_score", JNum(5)))) =>
                          \E i \in DOMAIN validated :
                              /\ validated[i].o.event_name = raw.o.event_name
                              /\ validated[i].o.confidence_score = JNum(5)

\* C17: normalization is idempotent: normalizing the dumped result of a
\* normalization gives a list equal to the first result, ids and
\* keywords_matched included.
C17_NormalizationIsIdempotent == stage = "again" => revalidated = validated

\* a record that got its id and its keywords on the first pass
C17_Witness ==
    /\ stage = "again"
    /\ \E i \in DOMAIN validated :
          /\ "opp_hex" \in DOMAIN validated[i].o.id
          /\ validated[i].o.keywords_matched = keywords
          /\ keywords # EmptyList
    /\ revalidated = validated

\* a record whose values were converted on the first pass
C17_WitnessConverted ==
    /\ stage = "again"
    /\ \E i \in DOMAIN validated : validated[i].o.compensation.o.is_paid = JBool(TRUE)
    /\ revalidated = validated

\* C18: after a batch, every accepted opportunity has a non-empty id and no
\* two accepted opportunities have the same id.
C18_IdsAreDistinct ==
    Normalized =>
        /\ \A i \in DOMAIN validated : Truthy(validated[i].o.id)
        /\ \A i, j \in DOMAIN validated : i # j => validated[i].o.id # validated[j].o.id

----------------------------------------------------------------------------
(* Properties of chunk_text *)

\* a turn of the loop that is followed by another one or by the return
LoopTurn == chunk_pc = "loop" /\ chunk_pc' = "loop"

\* C19: for every text, chunk_size > 0 and 0 <= overlap < chunk_size, the
\* start of each window is strictly after the start of the window before it
\* (so the loop, which ends when start reaches len(text), terminates).
C19_WindowStartsIncrease == [][LoopTurn => start' > start]_vars

\* the offsets in the window, past its midpoint, where a sentence separator
\* starts, and those where a whitespace character is
SeparatorsPastMidpoint(window, size) ==
    { i \in 0 .. Len(window) - 2 :
        /\ i > size \div 2
        /\ SubSeq(window, i + 1, i + 2) \in Range(Separators) }
WhitespacePastMidpoint(window, size) ==
    { i \in 0 .. Len(window) - 1 : i > size \div 2 /\ window[i + 1] \in Whitespace }
Last(offsets) == CHOOSE i \in offsets : \A j \in offsets : j <= i

\* where the rule cuts the window that starts at from
RuleCut(s, from, size) ==
    LET window == StrSlice(s, from, from + size)
        separators == SeparatorsPastMidpoint(window, size)
        spaces == WhitespacePastMidpoint(window, size)
    IN  IF separators # {} THEN from + Last(separators) + 2
        ELSE IF spaces # {} THEN from + Last(spaces) + 1
        ELSE from + size

\* C20: a window that does not reach the end of the text is cut right after
\* the sentence separator nearest to the window's end among those past its
\* midpoint; with no such separator, after the last whitespace past the
\* midpoint; with neither, at start + chunk_size.
C20_CutAtNearestSeparator ==
    [][(LoopTurn /\ start + chunk_size < Len(full_text)) =>
          end' = RuleCut(full_text, start, chunk_size)]_vars

----------------------------------------------------------------------------
(* Properties of the functions that keep no state *)

\* the whole number a component of an embedding stands for
Whole(f) == f.m * Pow2(f.e)

RECURSIVE ExactDot(_, _, _)
ExactDot(x, y, i) ==
    IF i > Len(x) THEN 0 ELSE Whole(x[i]) * Whole(y[i]) + ExactDot(x, y, i + 1)

ZeroVector(x) == \A i \in DOMAIN x : x[i] = Float(0)

\* the pairs for which 0.0 is due
NoSimilarity(x, y) == Len(x) # Len(y) \/ ZeroVector(x) \/ ZeroVector(y)

SimilarityGiven ==
    /\ call_args.fn = "compute_similarity"
    /\ call_result # Pending

\* C21: compute_similarity never raises; it returns 0.0 when the lengths
\* differ, a vector is empty or has zero magnitude; otherwise it returns
\* (cos + 1) / 2, which is within 0.0 .. 1.0, is 1.0 for a vector with itself
\* and 0.5 for orthogonal vectors.
C21_SimilarityIsRemappedCosine ==
    SimilarityGiven =>
        LET x == call_args.embedding1
            y == call_args.embedding2
            similarity == call_result.v
        IN  /\ call_result.kind = "return"
            /\ NoSimilarity(x, y) => similarity = Float(0)
            /\ ~NoSimilarity(x, y) =>
                  /\ FLessEq(Float(0), similarity) /\ FLessEq(similarity, Float(1))
                  /\ x = y => similarity = Float(1)
                  /\ ExactDot(x, y, 1) = 0 => similarity = FDiv(Float(1), Float(2))

\* the datetime a str of one lexical shape stands for under the one format
\* written for that shape, or None when its fields are no date
ReadAs(s, y, m, d, sec) ==
    IF ValidYmd(y, m, d) /\ ValidHms(sec)
    THEN [ord |-> Ymd2Ord(y, m, d), sec |-> sec, us |-> 0]
    ELSE None

\* what each accepted format, in the order the claim states, makes of a str
ReadByFormat(s) ==
    IF "shape" \notin DOMAIN s THEN [i \in 1 .. 8 |-> None]
    ELSE << IF s.shape = "ymd" THEN ReadAs(s, s.y, s.m, s.d, 0) ELSE None,
            IF s.shape = "ymdT" THEN ReadAs(s, s.y, s.m, s.d, s.sec) ELSE None,
            IF s.shape = "ymdTZ" THEN ReadAs(s, s.y, s.m, s.d, s.sec) ELSE None,
            IF s.shape = "ymd_" THEN ReadAs(s, s.y, s.m, s.d, s.sec) ELSE None,
            IF s.shape = "slash" THEN ReadAs(s, s.y, s.q, s.p, 0) ELSE None,
            IF s.shape = "slash" THEN ReadAs(s, s.y, s.p, s.q, 0) ELSE None,
            IF s.shape = "long" THEN ReadAs(s, s.y, s.m, s.d, 0) ELSE None,
            IF s.shape \in { "abbr", "long" } /\ (s.shape = "abbr" \/ s.m = 5)
            THEN ReadAs(s, s.y, s.m, s.d, 0) ELSE None >>

\* the reading of the first format that parses, or None
FirstReading(s) ==
    LET parsing == { i \in 1 .. 8 : ReadByFormat(s)[i] # None }
    IN  IF parsing = {} THEN None
        ELSE ReadByFormat(s)[CHOOSE i \in parsing : \A j \in parsing : i <= j]

ParseDateGiven == call_args.fn = "_parse_date" /\ call_result # Pending

\* C24: _parse_date tries ISO date, ISO date-time, ISO date-time with Z,
\* space-separated date-time, day/month/year, month/day/year, long month name
\* and abbreviated month name in this order and returns what the first format
\* that parses makes of the str, so that a slash date valid both ways is read
\* as day/month/year; for an empty str and for a str no format parses it
\* returns None, and it never raises.
C24_FirstFormatThatParsesWins ==
    ParseDateGiven =>
        /\ call_result.kind = "return"
        /\ call_args.date_str \in { None, StrEmpty } => call_result.v = None
        /\ call_args.date_str.k = "str" => call_result.v = FirstReading(call_args.date_str)
        /\ \A p \in 1 .. 12, q \in 1 .. 12 :
              call_args.date_str = StrSlash(p, q, 2026)
                  => call_result.v = [ord |-> Ymd2Ord(2026, q, p), sec |-> 0, us |-> 0]

\* 2/11/2026, a date under both slash formats, is read as the 2nd of November
C24_Witness ==
    /\ ParseDateGiven
    /\ call_args.date_str = StrSlash(2, 11, 2026)
    /\ call_result = Gave([ord |-> Ymd2Ord(2026, 11, 2), sec |-> 0, us |-> 0])

\* 12/31/2026, no date as day/month/year, is read as month/day/year
C24_WitnessSecondFormat ==
    /\ ParseDateGiven
    /\ call_args.date_str = StrSlash(12, 31, 2026)
    /\ call_result = Gave([ord |-> Ymd2Ord(2026, 12, 31), sec |-> 0, us |-> 0])

\* a str that no format parses gives None
C24_WitnessUnparseable ==
    /\ ParseDateGiven
    /\ call_args.date_str \in { StrText, StrYmd(2027, 2, 30) }
    /\ call_result = Gave(None)

\* the instant d whole days after t
DaysLater(t, d) == [t EXCEPT !.ord = @ + d]

DaysGiven == call_args.fn = "_days_until_deadline" /\ call_result # Pending

\* C23: _days_until_deadline returns the whole number d of days with
\* now + d days <= deadline < now + (d + 1) days, negative for a deadline in
\* the past; it returns None exactly when the deadline is absent or no format
\* parses it; the start date has no part in the result.
C23_DaysUntilDeadlineIsSignedWholeDays ==
    DaysGiven =>
        LET deadline_str == DeadlineOf(call_args.opportunity)
            deadline == IF deadline_str.k = "str" THEN FirstReading(deadline_str) ELSE None
            now == call_args.current_date
        IN  /\ call_result.kind = "return"
            /\ call_result.v = None <=> deadline = None
            /\ deadline # None =>
                  /\ call_result.v.k = "int"
                  /\ ~Before(deadline, DaysLater(now, call_result.v.n))
                  /\ Before(deadline, DaysLater(now, call_result.v.n + 1))
                  /\ Before(deadline, now) => call_result.v.n < 0

\* a deadline thirteen hours before now is -1 days away
C23_Witness ==
    /\ DaysGiven
    /\ DeadlineOf(call_args.opportunity) = StrYmd(2026, 11, 1)
    /\ call_args.current_date = Instants[2]
    /\ call_result = Gave(JInt(-1))

\* no deadline and a start date that parses: None
C23_WitnessStartDate ==
    /\ DaysGiven
    /\ DeadlineOf(call_args.opportunity) = None
    /\ StartOf(call_args.opportunity) = StrYmd(2027, 11, 1)
    /\ call_result = Gave(None)

\* a deadline one year from now
C23_WitnessFuture ==
    /\ DaysGiven
    /\ DeadlineOf(call_args.opportunity) = StrYmd(2027, 11, 1)
    /\ call_args.current_date = Instants[1]
    /\ call_result = Gave(JInt(365))

BatchGiven == call_args.fn = "generate_proposals_batch" /\ call_result # Pending

C28_WitnessAll ==
    /\ BatchGiven
    /\ Len(call_args.ranked_opportunities) = 2
    /\ call_args.max_proposals = 4
    /\ Len(call_result.v) = 2

----------------------------------------------------------------------------
(* Properties of the ranked records *)

\* days is the number of whole days from now to the deadline the str states,
\* or None when the str states none
IsWholeDaysTo(days, deadline_str, now) ==
    LET deadline == IF deadline_str.k = "str" THEN FirstReading(deadline_str) ELSE None
    IN  IF deadline = None THEN days = None
        ELSE /\ days.k = "int"
             /\ ~Before(deadline, DaysLater(now, days.n))
             /\ Before(deadline, DaysLater(now, days.n + 1))

\* the scoring response has an entry for the id that says is_expired: true
\* or states a days_until_deadline
ScorerSpokeOf(id) ==
    /\ scorer_reply.kind = "text"
    /\ JsonLoads(scorer_reply.text).ok
    /\ JsonLoads(scorer_reply.text).v.k = "arr"
    /\ \E e \in Range(JsonLoads(scorer_reply.text).v.a) :
          /\ e.k = "obj"
          /\ Get(e, "opportunity_id", None) = id
          /\ "days_until_deadline" \in DOMAIN e.o

\* C30: every record of ranked_opportunities has is_expired false, whatever
\* the scoring response says, and a days_until_deadline that is the number of
\* whole days to the deadline of the opportunity it stands for, not the
\* number of the scoring response: None or a number that is at least 0.
C30_RankedRecordsAreNotExpired ==
    Finished =>
        \A i \in DOMAIN RankedList :
            /\ RankedList[i].is_expired = JBool(FALSE)
            /\ \A j \in DOMAIN opportunities :
                  Get(opportunities[j], "id", StrEmpty) = RankedList[i].opportunity_id
                      => IsWholeDaysTo(RankedList[i].days_until_deadline,
                                       DeadlineOf(opportunities[j]), current_date)
            /\ \/ RankedList[i].days_until_deadline = None
               \/ /\ RankedList[i].days_until_deadline.k = "int"
                  /\ RankedList[i].days_until_deadline.n >= 0

\* the scorer called "a" expired and 30 days from its deadline: the record of
\* "a" is not expired and states the days to its own deadline
C30_Witness ==
    /\ Finished
    /\ \E i \in DOMAIN RankedList :
          /\ RankedList[i].opportunity_id = JStr("a")
          /\ ScorerSpokeOf(JStr("a"))
          /\ \E e \in Range(JsonLoads(scorer_reply.text).v.a) :
                Get(e, "is_expired", None) = JBool(TRUE)
          /\ RankedList[i].is_expired = JBool(FALSE)
          /\ RankedList[i].days_until_deadline \notin { None, JInt(30) }

\* a deadline on the very instant of the ranking: 0 days
C30_WitnessToday ==
    /\ Finished
    /\ \E i \in DOMAIN RankedList : RankedList[i].days_until_deadline = JInt(0)

\* a deadline that no format parses: no days
C30_WitnessUnparseable ==
    /\ Finished
    /\ \E i \in DOMAIN RankedList :
          /\ RankedList[i].application_deadline = StrText
          /\ RankedList[i].days_until_deadline = None

====
